---- MODULE Spec2Model ----
(***************************************************************************)
(* Hardware-in-the-loop test harness (tools/hwci).                         *)
(*                                                                         *)
(* Spec  : one run of the Driver (core/main.py) executing a scenario       *)
(*         (OneshotTest.test, AnalyzeConsoleTest / WaitForConsoleMessage-  *)
(*         Test) against a board whose lifecycle operations may raise and  *)
(*         whose serial transport answers expect() with a line, with the   *)
(*         no-match sentinel, or by raising.                               *)
(* SpecT : the mock transport (MockSerialPort) driven by a producer that   *)
(*         writes chunks and a consumer that calls expect / flush_buffer,  *)
(*         with a discrete clock.                                          *)
(* SpecL : Spec with the line-collecting loop of AnalyzeConsoleTest going  *)
(*         on beyond the recorded lines, under weak fairness of the main   *)
(*         thread.                                                         *)
(* SpecE : the Driver running a wait-for-message scenario on MockBoard,    *)
(*         with the output threads of simulate_output, the mock transport  *)
(*         and the clock.                                                  *)
(* SpecA : the analyses of captured lines (the analyze methods of the      *)
(*         scenarios, the analysis functions of hwci.py) applied to every  *)
(*         bounded capture, and what the run makes of the verdict.         *)
(* SpecB : the Driver running the base scenario on a hardware board        *)
(*         (Nrf52dk / TockloaderBoard): source checkouts, builds and       *)
(*         installs against the working directory.                         *)
(* SpecP : the construction of Nrf52dk, choosing the UART port among the   *)
(*         enumerated serial ports.                                        *)
(* SpecM : the periodic-alarm emitter of MockBoard read through the mock   *)
(*         transport by the line-collecting loop of AnalyzeConsoleTest.    *)
(* SpecH : the capture scripts hwci.py and async_hwci.py: main with its    *)
(*         listener thread or task, and the clock.                         *)
(***************************************************************************)
EXTENDS Integers, Sequences, FiniteSets, TLC

VARIABLES
    \* ---- Driver / scenario run (Spec) ----
    pc,             \* position of the single thread of control of main()
    hasBoard,       \* the board module exports `board`
    hasTest,        \* the test module exports `test`
    scenario,       \* which scenario class `test` is an instance of
    apps,           \* OneshotTest.apps, the configured applications
    appIdx,         \* position of the `for app in self.apps` loop
    trace,          \* calls issued so far, in order, each with its result
    lines,          \* the `lines` list of AnalyzeConsoleTest.oneshot_test
    raisedIn,       \* operation whose exception left test.test(board), or "none"
    errorLogged,    \* oneshot_test's `except Exception` logged and swallowed an error
    successLogged,  \* main logged "Test completed successfully"
    exitCode,       \* process exit code, NoExit while running
    pendingExit,    \* code of the SystemExit raised by sys.exit and not yet acted on
    closeCount,     \* number of board.serial.close() calls
    \* ---- Mock transport (SpecT) ----
    buffer,             \* MockSerialPort.buffer, the queue of written chunks
    accumulated_data,   \* MockSerialPort.accumulated_data
    now,                \* time.time(), in ticks since the latest expect call began
    epc,                \* position of the consumer inside expect
    end_time,           \* expect's end_time
    pattern,            \* expect's pattern
    getDeadline,        \* when the pending buffer.get(timeout=0.1) gives up
    result,             \* value returned by the last expect
    written,            \* bytes written since the last flush (history)
    call,               \* facts recorded about the expect call in progress (history)
    \* ---- Mock board (SpecE) ----
    threads,            \* output threads started by simulate_output: when each may wake
    wake,               \* when the main thread's time.sleep of simulate_output may end
    \* ---- Host of a hardware board (SpecB, SpecP) ----
    fs,                 \* paths that exist under the working directory
    cmds,               \* external commands run by flash_kernel / flash_app, in order
    ports,              \* serial.tools.list_ports.comports(), in enumeration order
    uart_port,          \* Nrf52dk.uart_port, "" while unset
    cwd,                \* os.getcwd(), the working directory of the process
    \* ---- Periodic-alarm emitter of the mock board (SpecM) ----
    running,            \* MockBoard.running
    emitter,            \* the output thread of simulate_multi_alarm_output
    \* ---- The capture scripts hwci.py / async_hwci.py (SpecH) ----
    variant,            \* "threaded" (hwci.py) or "async" (async_hwci.py)
    listener            \* the capture thread / task running listen_serial_port

driverVars == <<pc, hasBoard, hasTest, scenario, apps, appIdx, trace, lines,
                raisedIn, errorLogged, successLogged, exitCode, pendingExit,
                closeCount>>
transportVars == <<buffer, accumulated_data, now, epc, end_time, pattern,
                   getDeadline, result, written, call>>
hostVars == <<fs, cmds, ports, uart_port, cwd>>
emitterVars == <<running, emitter>>
scriptVars == <<variant, listener>>
boardVars == <<threads, wake, hostVars, emitterVars, scriptVars>>
vars == <<driverVars, transportVars, boardVars>>

----------------------------------------------------------------------------
\* Bounds of the model
MaxApps == 2
MaxLines == 2
MaxBytes == 2       \* bytes written between two flushes
MaxTimeout == 3     \* timeout of an expect call, in ticks
MaxJitter == 1      \* how late a sleeping thread may be resumed, in ticks
MaxCapture == 4     \* lines of a capture handed to an analysis
MaxPorts == 2       \* serial ports the host enumerates

\* buffer.get(timeout=0.1): the polling interval of expect, in ticks.
PollInterval == 2

NoExit == 0 - 1
None == <<"None">>
\* The directory the harness is started in; the checkouts are relative to it.
Root == <<"dir", ".">>

AppNames == {"c_hello", "tests/whileone"}
Scenarios == {"WhileOneTest", "WaitForConsoleMessageTest", "OneshotTest"}

\* Tokens of console text: pieces of text ("H" for the bytes of an ordinary
\* message), and the white space bytes.strip() removes.
Words == {"H", "Kernel panic", "Fault"}
White == {" ", "\r", "\n"}

\* What a transport's expect(".*\r\n") can hand back: text ending in "\r\n".
ExpectOutputs ==
    {<<"\r", "\n">>, <<" ", "\r", "\n">>}
    \cup {<<w, "\r", "\n">> : w \in Words}
    \cup {<<" ", w, "\r", "\n">> : w \in Words}

RECURSIVE LStrip(_)
LStrip(s) == IF s # <<>> /\ Head(s) \in White THEN LStrip(Tail(s)) ELSE s

RECURSIVE RStrip(_)
RStrip(s) ==
    IF s # <<>> /\ s[Len(s)] \in White THEN RStrip(SubSeq(s, 1, Len(s) - 1)) ELSE s

\* output.decode("utf-8", errors="replace").strip()
Strip(s) == LStrip(RStrip(s))

\* `marker in tok` for one piece of text: a piece contains itself, and the
\* longer piece "Faulty" contains "Fault"; "fault" and "Hello World" (no
\* exclamation mark) contain no marker, the comparison is by character.
Within(marker, tok) ==
    \/ tok = marker
    \/ marker = "Fault" /\ tok = "Faulty"
    \/ marker = "J-Link" /\ tok = "J-Link - CDC"

\* `marker in line`
Contains(line, marker) == \E i \in 1..Len(line) : Within(marker, line[i])

\* Mutant: only the panic marker is looked for.
WhileOneRaises_panicOnly(ls) ==
    \E i \in 1..Len(ls) : Contains(ls[i], "Kernel panic")

\* WhileOneTest.analyze raises iff some line carries a panic or fault marker.
WhileOneRaises(ls) ==
    \E i \in 1..Len(ls) : Contains(ls[i], "Kernel panic") \/ Contains(ls[i], "Fault")

\* str.split(): the maximal runs of non-white text of a line, in order.  A
\* piece of text of the model holds no white space, and two pieces of one
\* line are always separated by white space.
RECURSIVE Fields(_)
Fields(s) ==
    IF s = <<>> THEN <<>>
    ELSE IF Head(s) \in White THEN Fields(Tail(s))
    ELSE <<Head(s)>> \o Fields(Tail(s))

\* The regular expression \d+ matches the whole piece.
IsDigits(tok) == tok \in {"0", "1", "2", "3"}

\* int(tok) succeeds: a run of digits, with an optional sign.
IntParses(tok) == IsDigits(tok) \/ tok = "+1"

\* int(tok), for a piece int() accepts.
IntOf(tok) ==
    CASE tok = "0" -> 0
      [] tok = "1" -> 1
      [] tok = "2" -> 2
      [] tok = "3" -> 3
      [] tok = "+1" -> 1

\* pattern.match(line) for ^(\d+)\s+(\d+)\s+(\d+)$: the line starts with a
\* digit run, and is exactly three digit runs separated by white space.
AlarmMatch(line) ==
    /\ line # <<>>
    /\ Head(line) \notin White
    /\ line[Len(line)] \notin White
    /\ Len(Fields(line)) = 3
    /\ \A i \in 1..3 : IsDigits(Fields(line)[i])

\* alarm_times[alarm_index]: the `now` fields of the matching lines of one
\* alarm, in the order of the lines.
RECURSIVE AlarmTimes(_, _)
AlarmTimes(ls, k) ==
    IF ls = <<>> THEN <<>>
    ELSE IF AlarmMatch(Head(ls)) /\ IntOf(Fields(Head(ls))[1]) = k
           THEN <<IntOf(Fields(Head(ls))[2])>> \o AlarmTimes(Tail(ls), k)
           ELSE AlarmTimes(Tail(ls), k)

\* Mutant: the ratio has only its lower limit.
AnalyzeMultiAlarmOutput_noUpperLimit(ls) ==
    LET c1 == Len(AlarmTimes(ls, 1))
        c2 == Len(AlarmTimes(ls, 2))
    IN  IF c1 = 0 \/ c2 = 0 THEN FALSE
        ELSE IF 2 * c1 < 3 * c2 THEN FALSE
        ELSE TRUE

\* analyze_multi_alarm_output / MultiAlarmTest.analyze: False when alarm 1 or
\* alarm 2 has no line; ratio = count_alarm_1 / count_alarm_2; False when
\* ratio < 1.5 or ratio > 2.5 (c1/c2 < 3/2 iff 2*c1 < 3*c2, and c1/c2 > 5/2
\* iff 2*c1 > 5*c2, for c2 > 0: the quotients of small integers by 2 are
\* exact in binary floating point); True otherwise.  The times are stored
\* and never read.
AnalyzeMultiAlarmOutput(ls) ==
    LET c1 == Len(AlarmTimes(ls, 1))
        c2 == Len(AlarmTimes(ls, 2))
    IN  IF c1 = 0 \/ c2 = 0 THEN FALSE
        ELSE IF 2 * c1 < 3 * c2 \/ 2 * c1 > 5 * c2 THEN FALSE
        ELSE TRUE

\* MultiAlarmSimpleTest.analyze, the counting loop: tokens =
\* line.strip().split(); a line of at least three tokens whose first token
\* int() accepts counts for alarm 1 or 2; a ValueError skips the line.
RECURSIVE SimpleCount(_, _)
SimpleCount(ls, k) ==
    IF ls = <<>> THEN 0
    ELSE LET tokens == Fields(Strip(Head(ls))) IN
         (IF Len(tokens) >= 3 /\ IntParses(tokens[1]) /\ IntOf(tokens[1]) = k
            THEN 1 ELSE 0) + SimpleCount(Tail(ls), k)

\* MultiAlarmSimpleTest.analyze raises when count1 < 2 or count2 < 1, and
\* when count1 < 2 * count2; otherwise it logs and returns.
MultiAlarmSimpleRaises(ls) ==
    LET count1 == SimpleCount(ls, 1)
        count2 == SimpleCount(ls, 2)
    IN  \/ count1 < 2 \/ count2 < 1
        \/ count1 < 2 * count2

\* AdcTest.analyze: the loop over the lines (driver_found is carried along),
\* its `break` at the first reading, its `return` at the "No ADC driver!"
\* marker, and the three-way verdict after the loop: "raise" only when the
\* driver line was seen and no reading followed.
RECURSIVE AdcAnalyze(_, _)
AdcAnalyze(ls, driver_found) ==
    IF ls = <<>>
      THEN IF driver_found THEN "raise" ELSE "ret"
      ELSE LET found == driver_found \/ Contains(Head(ls), "ADC driver exists") IN
           IF Contains(Head(ls), "ADC Reading:") THEN "ret"
           ELSE IF Contains(Head(ls), "No ADC driver!") THEN "ret"
           ELSE AdcAnalyze(Tail(ls), found)

\* Mutant: the marker is compared without its exclamation mark.
AnalyzeHelloWorldOutput_noBang(ls) ==
    \E i \in 1..Len(ls) :
        Contains(ls[i], "Hello World!") \/ Contains(ls[i], "Hello World")

\* analyze_hello_world_output: any("Hello World!" in line for line in lines)
AnalyzeHelloWorldOutput(ls) ==
    \E i \in 1..Len(ls) : Contains(ls[i], "Hello World!")

\* The scenarios with an analyze method, and the analysis functions that
\* hwci.py hands to listen_serial_port.
AnalyzeScenarios ==
    {"WhileOneTest", "MultiAlarmSimpleTest", "AdcTest", "MultiAlarmTest"}
AnalysisFuncs == {"analyze_hello_world_output", "analyze_multi_alarm_output"}

\* What self.analyze(lines) does in each scenario: "raise", "ret" (returns
\* None), or the boolean MultiAlarmTest.analyze returns.
AnalyzeResult(sc, ls) ==
    CASE sc = "WhileOneTest" -> IF WhileOneRaises(ls) THEN "raise" ELSE "ret"
      [] sc = "MultiAlarmSimpleTest" ->
            IF MultiAlarmSimpleRaises(ls) THEN "raise" ELSE "ret"
      [] sc = "AdcTest" -> AdcAnalyze(ls, FALSE)
      [] sc = "MultiAlarmTest" ->
            IF AnalyzeMultiAlarmOutput(ls) THEN "True" ELSE "False"

Ev(op, arg, res) == [op |-> op, arg |-> arg, res |-> res]

SetupOps == {"erase_board", "flush_buffer", "flash_kernel", "flash_app"}

AppSeqs == UNION {[1..n -> AppNames] : n \in 0..MaxApps}

\* Bytes the producer writes ("H" for the bytes of a message), and the chunks
\* one write can carry; a chunk is never empty, every write carries text.
Byte == {"H", "\r", "\n"}
Chunks == UNION {[1..n -> Byte] : n \in 1..MaxBytes}

\* The patterns the scenarios pass to expect: the line pattern ".*\r\n" and
\* literal messages.
Pat(dotstar, lit) == [dotstar |-> dotstar, lit |-> lit]
LinePattern == Pat(TRUE, <<"\r", "\n">>)
Patterns == {LinePattern, Pat(FALSE, <<"H">>)}

\* lit occurs in data at position i
LitAt(lit, data, i) ==
    /\ i + Len(lit) - 1 <= Len(data)
    /\ \A k \in 1..Len(lit) : data[i + k - 1] = lit[k]

\* re.search: some match starts at s; a leading ".*" takes data[s..i-1], which
\* may hold no "\n", and the literal follows at i.
Search(p, data) ==
    \E s \in 1..(Len(data) + 1) : \E i \in s..(Len(data) + 1) :
        /\ i = s \/ (p.dotstar /\ \A k \in s..(i - 1) : data[k] # "\n")
        /\ LitAt(p.lit, data, i)

\* End of the leftmost match of p in data, for data that matches: the patterns
\* end in their literal, and a leading ".*" cannot run across a "\n", so the
\* leftmost match ends with the first occurrence of the literal.
MatchEnd(p, data) ==
    LET first == CHOOSE i \in 1..Len(data) :
                     /\ LitAt(p.lit, data, i)
                     /\ \A k \in 1..(i - 1) : ~LitAt(p.lit, data, k)
    IN first + Len(p.lit) - 1

\* History of the expect calls: whether one was made; of the latest one,
\* whether it was the first since construction or the last flush, whether the
\* previous expect since then had timed out, whether the bytes written since
\* then matched its pattern when it started, how many chunks it took off the
\* queue; whether no expect was made since construction or the last flush;
\* whether the call resumes a timed-out one that had taken chunks, with the
\* chunks completing its pattern written but not yet taken; and how much of
\* accumulated_data a transport that consumes what it matches would have
\* consumed by earlier matches, now (seen) and when the call began (base).
NoCall == [made |-> FALSE, first |-> FALSE, afterTimeout |-> FALSE,
           matchable |-> FALSE, got |-> 0, fresh |-> TRUE,
           resumable |-> FALSE, seen |-> 0, base |-> 0]

\* accumulated_data past position n
After(data, n) == SubSeq(data, n + 1, Len(data))

\* The history after a chunk was taken and data is the accumulation: a
\* consuming transport matches in what it has not consumed, and consumes
\* through the end of that match.
Took(c, p, data) ==
    [c EXCEPT !.got = @ + 1,
              !.seen = IF Search(p, After(data, @))
                         THEN @ + MatchEnd(p, After(data, @))
                         ELSE @]

TransportIdle ==
    /\ buffer = <<>>
    /\ accumulated_data = <<>>
    /\ now = 0
    /\ epc = "idle"
    /\ end_time = 0
    /\ pattern = LinePattern
    /\ getDeadline = 0
    /\ result = None
    /\ written = <<>>
    /\ call = NoCall

\* MockBoard.__init__: no output thread yet.
HostIdle ==
    /\ fs = {}
    /\ cmds = <<>>
    /\ ports = <<>>
    /\ uart_port = ""
    /\ cwd = Root

MockIdle ==
    /\ threads = <<>>
    /\ wake = 0

\* No emitter thread has been started.
EmitterIdle ==
    /\ running = FALSE
    /\ emitter = [pc |-> "none", start_time |-> 0, current_time |-> 0, wake |-> 0]

\* No capture thread or task has been created.
ScriptIdle ==
    /\ variant = "none"
    /\ listener = [pc |-> "none", start_time |-> 0, wake |-> 0, ret |-> "none",
                   accepted |-> FALSE]

BoardIdle == MockIdle /\ HostIdle /\ EmitterIdle /\ ScriptIdle

Init ==
    /\ pc = "load_board"
    /\ hasBoard \in BOOLEAN
    /\ hasTest \in BOOLEAN
    /\ scenario \in Scenarios
    /\ apps \in AppSeqs
    /\ appIdx = 1
    /\ trace = <<>>
    /\ lines = <<>>
    /\ raisedIn = "none"
    /\ errorLogged = FALSE
    /\ successLogged = FALSE
    /\ exitCode = NoExit
    /\ pendingExit = NoExit
    /\ closeCount = 0
    /\ TransportIdle
    /\ BoardIdle

----------------------------------------------------------------------------
\* core/main.py

\* main: load the board module; without a `board` attribute exit(1).
LoadBoard ==
    /\ pc = "load_board"
    /\ IF hasBoard
         THEN pc' = "load_test" /\ exitCode' = exitCode
         ELSE pc' = "exited" /\ exitCode' = 1
    /\ UNCHANGED <<hasBoard, hasTest, scenario, apps, appIdx, trace, lines,
                   raisedIn, errorLogged, successLogged, pendingExit, closeCount>>
    /\ UNCHANGED <<transportVars, boardVars>>

\* main: load the test module; without a `test` attribute exit(1).
LoadTest ==
    /\ pc = "load_test"
    /\ IF hasTest
         THEN pc' = "erase" /\ exitCode' = exitCode
         ELSE pc' = "exited" /\ exitCode' = 1
    /\ UNCHANGED <<hasBoard, hasTest, scenario, apps, appIdx, trace, lines,
                   raisedIn, errorLogged, successLogged, pendingExit, closeCount>>
    /\ UNCHANGED <<transportVars, boardVars>>

\* An exception leaves test.test(board) from operation op.
Raise(op) ==
    /\ raisedIn' = op
    /\ pc' = "except"

\* Mutant: a failing step is logged and the sequence goes on.
Step_swallows(op, arg, next) ==
    \E ok \in BOOLEAN :
        /\ trace' = Append(trace, Ev(op, arg, IF ok THEN "ret" ELSE "raise"))
        /\ pc' = next
        /\ raisedIn' = raisedIn

\* A lifecycle step of OneshotTest.test: returns and goes on to `next`, or raises.
Step(op, arg, next) ==
    \E ok \in BOOLEAN :
        /\ trace' = Append(trace, Ev(op, arg, IF ok THEN "ret" ELSE "raise"))
        /\ IF ok THEN pc' = next /\ raisedIn' = raisedIn ELSE Raise(op)

\* OneshotTest.test: board.erase_board()
EraseBoard ==
    /\ pc = "erase"
    /\ Step("erase_board", "", "flush")
    /\ UNCHANGED <<hasBoard, hasTest, scenario, apps, appIdx, lines,
                   errorLogged, successLogged, exitCode, pendingExit, closeCount>>
    /\ UNCHANGED <<transportVars, boardVars>>

\* Mutant: flash_kernel left out of the sequence.
FlushSerial_skipsKernel ==
    /\ pc = "flush"
    /\ Step("flush_buffer", "", "apps")
    /\ UNCHANGED <<hasBoard, hasTest, scenario, apps, appIdx, lines,
                   errorLogged, successLogged, exitCode, pendingExit, closeCount>>
    /\ UNCHANGED <<transportVars, boardVars>>

\* OneshotTest.test: board.serial.flush_buffer()
FlushSerial ==
    /\ pc = "flush"
    /\ Step("flush_buffer", "", "kernel")
    /\ UNCHANGED <<hasBoard, hasTest, scenario, apps, appIdx, lines,
                   errorLogged, successLogged, exitCode, pendingExit, closeCount>>
    /\ UNCHANGED <<transportVars, boardVars>>

\* OneshotTest.test: board.flash_kernel()
FlashKernel ==
    /\ pc = "kernel"
    /\ Step("flash_kernel", "", "apps")
    /\ UNCHANGED <<hasBoard, hasTest, scenario, apps, appIdx, lines,
                   errorLogged, successLogged, exitCode, pendingExit, closeCount>>
    /\ UNCHANGED <<transportVars, boardVars>>

\* Mutant: the applications are installed in reverse order.
FlashApp_reversed ==
    /\ pc = "apps"
    /\ appIdx <= Len(apps)
    /\ Step("flash_app", apps[Len(apps) + 1 - appIdx], "apps")
    /\ appIdx' = IF pc' = "apps" THEN appIdx + 1 ELSE appIdx
    /\ UNCHANGED <<hasBoard, hasTest, scenario, apps, lines,
                   errorLogged, successLogged, exitCode, pendingExit, closeCount>>
    /\ UNCHANGED <<transportVars, boardVars>>

\* OneshotTest.test: one iteration of `for app in self.apps: board.flash_app(app)`
FlashApp ==
    /\ pc = "apps"
    /\ appIdx <= Len(apps)
    /\ Step("flash_app", apps[appIdx], "apps")
    /\ appIdx' = IF pc' = "apps" THEN appIdx + 1 ELSE appIdx
    /\ UNCHANGED <<hasBoard, hasTest, scenario, apps, lines,
                   errorLogged, successLogged, exitCode, pendingExit, closeCount>>
    /\ UNCHANGED <<transportVars, boardVars>>

\* Mutant: off by one, the observation step starts before the last install.
CallOneshot_early ==
    /\ pc = "apps"
    /\ appIdx >= Len(apps)
    /\ trace' = Append(trace, Ev("oneshot_test", "", "call"))
    /\ lines' = <<>>
    /\ pc' = CASE scenario = "WhileOneTest" -> "expect_line"
               [] scenario = "WaitForConsoleMessageTest" -> "wait_message"
               [] OTHER -> "test_return"
    /\ UNCHANGED <<hasBoard, hasTest, scenario, apps, appIdx,
                   raisedIn, errorLogged, successLogged, exitCode, pendingExit,
                   closeCount>>
    /\ UNCHANGED <<transportVars, boardVars>>

\* OneshotTest.test: the loop is exhausted, self.oneshot_test(board) is called.
CallOneshot ==
    /\ pc = "apps"
    /\ appIdx > Len(apps)
    /\ trace' = Append(trace, Ev("oneshot_test", "", "call"))
    /\ lines' = <<>>
    /\ pc' = CASE scenario = "WhileOneTest" -> "expect_line"
               [] scenario = "WaitForConsoleMessageTest" -> "wait_message"
               [] OTHER -> "test_return"
    /\ UNCHANGED <<hasBoard, hasTest, scenario, apps, appIdx,
                   raisedIn, errorLogged, successLogged, exitCode, pendingExit, closeCount>>
    /\ UNCHANGED <<transportVars, boardVars>>

----------------------------------------------------------------------------
\* utils/test_helpers/analyze_console.py, wait_for_console_message.py

\* What self.child.expect(pattern, timeout) does inside SerialPort.expect: it
\* returns on a match, or raises TIMEOUT, or raises EOF, or raises something
\* else ("error": the device is gone, the descriptor is invalid).
ChildOutcomes == {"match", "TIMEOUT", "EOF", "error"}

\* Mutant: only the timeout is converted, EOF propagates.
SerialPortExpect_onlyTimeout(o) ==
    CASE o = "match" -> "match"
      [] o = "TIMEOUT" -> "none"
      [] OTHER -> "raise"

\* SerialPort.expect: child.after on a match; `except fdpexpect.TIMEOUT` and
\* `except fdpexpect.EOF` log and return None; any other exception propagates.
SerialPortExpect(o) ==
    CASE o = "match" -> "match"
      [] o \in {"TIMEOUT", "EOF"} -> "none"
      [] OTHER -> "raise"

\* Mutant: a new line is put in front of the lines captured before it.
ExpectLine_prepends ==
    /\ pc = "expect_line"
    /\ \E o \in ChildOutcomes :
        LET r == SerialPortExpect(o) IN
        /\ trace' = Append(trace, Ev("expect", o, r))
        /\ CASE r = "match" ->
                   /\ Len(lines) < MaxLines
                   /\ \E out \in ExpectOutputs : lines' = <<Strip(out)>> \o lines
                   /\ pc' = "expect_line"
                   /\ errorLogged' = errorLogged
             [] r = "none" ->
                   /\ pc' = "analyze"
                   /\ UNCHANGED <<lines, errorLogged>>
             [] OTHER ->
                   /\ errorLogged' = TRUE
                   /\ pc' = "test_return"
                   /\ lines' = lines
    /\ UNCHANGED <<hasBoard, hasTest, scenario, apps, appIdx, raisedIn,
                   successLogged, exitCode, pendingExit, closeCount>>
    /\ UNCHANGED <<transportVars, boardVars>>

\* AnalyzeConsoleTest.oneshot_test: one iteration of the `while True` loop.
\* serial.expect(".*\r\n", timeout=5) hands back text (appended, stripped, to
\* lines), or the no-match sentinel (the loop breaks), or raises (caught by the
\* method's own `except Exception`, which logs the error and goes on).
ExpectLine ==
    /\ pc = "expect_line"
    /\ \E o \in ChildOutcomes :
        LET r == SerialPortExpect(o) IN
        /\ trace' = Append(trace, Ev("expect", o, r))
        /\ CASE r = "match" ->
                   /\ Len(lines) < MaxLines
                   /\ \E out \in ExpectOutputs : lines' = Append(lines, Strip(out))
                   /\ pc' = "expect_line"
                   /\ errorLogged' = errorLogged
             [] r = "none" ->
                   /\ pc' = "analyze"
                   /\ UNCHANGED <<lines, errorLogged>>
             [] OTHER ->
                   /\ errorLogged' = TRUE
                   /\ pc' = "test_return"
                   /\ lines' = lines
    /\ UNCHANGED <<hasBoard, hasTest, scenario, apps, appIdx, raisedIn,
                   successLogged, exitCode, pendingExit, closeCount>>
    /\ UNCHANGED <<transportVars, boardVars>>

\* AnalyzeConsoleTest.oneshot_test: self.analyze(lines), inside the same `try`:
\* an exception raised by analyze is logged by `except Exception` and the
\* method returns normally; a value analyze returns is discarded.
Analyze ==
    /\ pc = "analyze"
    /\ LET res == AnalyzeResult(scenario, lines) IN
        /\ trace' = Append(trace, Ev("analyze", "", res))
        /\ errorLogged' = (errorLogged \/ res = "raise")
    /\ pc' = "test_return"
    /\ UNCHANGED <<hasBoard, hasTest, scenario, apps, appIdx, lines, raisedIn,
                   successLogged, exitCode, pendingExit, closeCount>>
    /\ UNCHANGED <<transportVars, boardVars>>

\* Mutant: a missing message is only logged (logging.error) and the step returns.
WaitMessage_logsOnly ==
    /\ pc = "wait_message"
    /\ \E o \in ChildOutcomes :
        LET r == SerialPortExpect(o) IN
        /\ trace' = Append(trace, Ev("expect", o, r))
        /\ IF r = "raise"
             THEN Raise("oneshot_test")
             ELSE pc' = "test_return" /\ raisedIn' = raisedIn
    /\ UNCHANGED <<hasBoard, hasTest, scenario, apps, appIdx, lines,
                   errorLogged, successLogged, exitCode, pendingExit, closeCount>>
    /\ UNCHANGED <<transportVars, boardVars>>

\* WaitForConsoleMessageTest.oneshot_test: output = serial.expect(message,
\* timeout=10); `if output:` returns, `else: raise Exception(...)`; an exception
\* of expect itself propagates as well.
WaitMessage ==
    /\ pc = "wait_message"
    /\ \E o \in ChildOutcomes :
        LET r == SerialPortExpect(o) IN
        /\ trace' = Append(trace, Ev("expect", o, r))
        /\ IF r = "match"
             THEN pc' = "test_return" /\ raisedIn' = raisedIn
             ELSE Raise("oneshot_test")
    /\ UNCHANGED <<hasBoard, hasTest, scenario, apps, appIdx, lines,
                   errorLogged, successLogged, exitCode, pendingExit, closeCount>>
    /\ UNCHANGED <<transportVars, boardVars>>

----------------------------------------------------------------------------
\* core/main.py: try / except / finally around test.test(board)

\* test.test(board) returned: logging.info("Test completed successfully")
TestReturn ==
    /\ pc = "test_return"
    /\ successLogged' = TRUE
    /\ pc' = "finally"
    /\ UNCHANGED <<hasBoard, hasTest, scenario, apps, appIdx, trace, lines,
                   raisedIn, errorLogged, exitCode, pendingExit, closeCount>>
    /\ UNCHANGED <<transportVars, boardVars>>

\* Mutant: the handler ends the process at once, bypassing `finally`.
Except_exitsAtOnce ==
    /\ pc = "except"
    /\ exitCode' = 1
    /\ pc' = "exited"
    /\ UNCHANGED <<hasBoard, hasTest, scenario, apps, appIdx, trace, lines,
                   raisedIn, errorLogged, successLogged, pendingExit, closeCount>>
    /\ UNCHANGED <<transportVars, boardVars>>

\* Mutant: the handler logs the exception and forgets sys.exit(1).
Except_logsOnly ==
    /\ pc = "except"
    /\ pc' = "finally"
    /\ UNCHANGED <<hasBoard, hasTest, scenario, apps, appIdx, trace, lines,
                   raisedIn, errorLogged, successLogged, exitCode, pendingExit,
                   closeCount>>
    /\ UNCHANGED <<transportVars, boardVars>>

\* except Exception: logging.exception(...); sys.exit(1)
Except ==
    /\ pc = "except"
    /\ pendingExit' = 1
    /\ pc' = "finally"
    /\ UNCHANGED <<hasBoard, hasTest, scenario, apps, appIdx, trace, lines,
                   raisedIn, errorLogged, successLogged, exitCode, closeCount>>
    /\ UNCHANGED <<transportVars, boardVars>>

\* finally: board.serial.close(); then the pending SystemExit, or the normal
\* end of main, ends the process.
Finally ==
    /\ pc = "finally"
    /\ trace' = Append(trace, Ev("close", "", "ret"))
    /\ closeCount' = closeCount + 1
    /\ exitCode' = IF pendingExit # NoExit THEN pendingExit ELSE 0
    /\ pc' = "exited"
    /\ UNCHANGED <<hasBoard, hasTest, scenario, apps, appIdx, lines,
                   raisedIn, errorLogged, successLogged, pendingExit>>
    /\ UNCHANGED <<transportVars, boardVars>>

Next ==
    \/ LoadBoard
    \/ LoadTest
    \/ EraseBoard
    \/ FlushSerial
    \/ FlashKernel
    \/ FlashApp
    \/ CallOneshot
    \/ ExpectLine
    \/ Analyze
    \/ WaitMessage
    \/ TestReturn
    \/ Except
    \/ Finally

Spec == Init /\ [][Next]_vars

\* The `while True` loop of AnalyzeConsoleTest.oneshot_test has no bound of its
\* own: it goes round for as long as expect hands back a line. Once the record
\* of lines is full (MaxLines), a further match shifts the record by one line
\* and the call is not logged in trace, so that a board that never stops
\* emitting is a behaviour over finitely many states.
ExpectLineMore ==
    /\ pc = "expect_line"
    /\ Len(lines) = MaxLines
    /\ SerialPortExpect("match") = "match"
    /\ \E out \in ExpectOutputs : lines' = Append(Tail(lines), Strip(out))
    /\ UNCHANGED <<pc, hasBoard, hasTest, scenario, apps, appIdx, trace, raisedIn,
                   errorLogged, successLogged, exitCode, pendingExit, closeCount>>
    /\ UNCHANGED <<transportVars, boardVars>>

NextL == Next \/ ExpectLineMore

\* main runs in one thread, which takes its next step whenever it has one.
SpecL == Init /\ [][NextL]_vars /\ WF_vars(NextL)


----------------------------------------------------------------------------
\* utils/serial_port.py: MockSerialPort, with its producer and its consumer

\* Mutant: the new chunk goes to the head of the queue.
Write_prepends ==
    \E data \in Chunks :
        /\ Len(written) + Len(data) <= MaxBytes
        /\ buffer' = <<data>> \o buffer
        /\ written' = written \o data
        /\ UNCHANGED <<accumulated_data, now, epc, end_time, pattern,
                       getDeadline, result, call>>
        /\ UNCHANGED <<driverVars, boardVars>>

\* MockSerialPort.write(data): the producer puts one chunk on the queue.
Write ==
    \E data \in Chunks :
        /\ Len(written) + Len(data) <= MaxBytes
        /\ buffer' = Append(buffer, data)
        /\ written' = written \o data
        /\ UNCHANGED <<accumulated_data, now, epc, end_time, pattern,
                       getDeadline, result, call>>
        /\ UNCHANGED <<driverVars, boardVars>>

\* The history of a call expect(p, ...) at its entry.
Called(p) ==
    [made |-> TRUE, first |-> call.fresh,
     afterTimeout |-> (~call.fresh /\ result = None),
     matchable |-> Search(p, written),
     got |-> 0, fresh |-> FALSE,
     resumable |-> /\ ~call.fresh
                   /\ result = None
                   /\ call.got > 0
                   /\ ~Search(p, accumulated_data)
                   /\ Search(p, written),
     seen |-> call.seen, base |-> call.seen]

\* MockSerialPort.expect(pattern, timeout): entry; end_time = time.time() + timeout.
\* The clock is read relative to this entry.
ExpectCall ==
    \E p \in Patterns, t \in 1..MaxTimeout :
        /\ epc = "idle"
        /\ now' = 0
        /\ end_time' = now' + t
        /\ pattern' = p
        /\ epc' = "loop"
        /\ call' = Called(p)
        /\ UNCHANGED <<buffer, accumulated_data, getDeadline, result, written>>
        /\ UNCHANGED <<driverVars, boardVars>>

\* Mutant: the queue is polled with twice the interval.
ExpectLoop_longPoll ==
    /\ epc = "loop"
    /\ IF now < end_time
         THEN /\ epc' = "get"
              /\ getDeadline' = now + 2 * PollInterval
              /\ UNCHANGED <<result, call>>
         ELSE /\ epc' = "idle"
              /\ result' = None
              /\ UNCHANGED <<getDeadline, call>>
    /\ UNCHANGED <<buffer, accumulated_data, now, end_time, pattern, written>>
    /\ UNCHANGED <<driverVars, boardVars>>

\* Mutant: a timed-out expect throws away what it had accumulated.
ExpectLoop_dropsOnTimeout ==
    /\ epc = "loop"
    /\ IF now < end_time
         THEN /\ epc' = "get"
              /\ getDeadline' = now + PollInterval
              /\ UNCHANGED <<result, call, accumulated_data>>
         ELSE /\ epc' = "idle"
              /\ result' = None
              /\ accumulated_data' = <<>>
              /\ UNCHANGED <<getDeadline, call>>
    /\ UNCHANGED <<buffer, now, end_time, pattern, written>>
    /\ UNCHANGED <<driverVars, boardVars>>

\* expect: `while time.time() < end_time:` enters buffer.get(timeout=0.1);
\* otherwise the loop ends and expect returns None.
ExpectLoop ==
    /\ epc = "loop"
    /\ IF now < end_time
         THEN /\ epc' = "get"
              /\ getDeadline' = now + PollInterval
              /\ UNCHANGED <<result, call>>
         ELSE /\ epc' = "idle"
              /\ result' = None
              /\ UNCHANGED <<getDeadline, call>>
    /\ UNCHANGED <<buffer, accumulated_data, now, end_time, pattern, written>>
    /\ UNCHANGED <<driverVars, boardVars>>

\* Mutant: a match is taken out of the accumulation when it is returned.
ExpectGet_consumesMatch ==
    /\ epc = "get"
    /\ IF buffer # <<>>
         THEN LET acc == accumulated_data \o Head(buffer) IN
              /\ buffer' = Tail(buffer)
              /\ IF Search(pattern, acc)
                   THEN result' = acc /\ epc' = "idle" /\ accumulated_data' = <<>>
                   ELSE epc' = "loop" /\ UNCHANGED result /\ accumulated_data' = acc
              /\ call' = Took(call, pattern, acc)
         ELSE /\ now >= getDeadline
              /\ epc' = "loop"
              /\ UNCHANGED <<buffer, accumulated_data, result, call>>
    /\ getDeadline' = 0
    /\ UNCHANGED <<now, end_time, pattern, written>>
    /\ UNCHANGED <<driverVars, boardVars>>

\* Mutant: the accumulation is replaced by the new chunk.
ExpectGet_keepsLastChunk ==
    /\ epc = "get"
    /\ IF buffer # <<>>
         THEN LET acc == Head(buffer) IN
              /\ buffer' = Tail(buffer)
              /\ accumulated_data' = acc
              /\ IF Search(pattern, acc)
                   THEN result' = acc /\ epc' = "idle"
                   ELSE epc' = "loop" /\ UNCHANGED result
              /\ call' = Took(call, pattern, acc)
         ELSE /\ now >= getDeadline
              /\ epc' = "loop"
              /\ UNCHANGED <<buffer, accumulated_data, result, call>>
    /\ getDeadline' = 0
    /\ UNCHANGED <<now, end_time, pattern, written>>
    /\ UNCHANGED <<driverVars, boardVars>>

\* expect: buffer.get(timeout=0.1) hands over the oldest chunk, which is added
\* to accumulated_data; if the pattern is then found in accumulated_data,
\* expect returns accumulated_data. With the queue still empty when the get
\* times out, queue.Empty is raised and the loop continues.
ExpectGet ==
    /\ epc = "get"
    /\ IF buffer # <<>>
         THEN LET acc == accumulated_data \o Head(buffer) IN
              /\ buffer' = Tail(buffer)
              /\ accumulated_data' = acc
              /\ IF Search(pattern, acc)
                   THEN result' = acc /\ epc' = "idle"
                   ELSE epc' = "loop" /\ UNCHANGED result
              /\ call' = Took(call, pattern, acc)
         ELSE /\ now >= getDeadline
              /\ epc' = "loop"
              /\ UNCHANGED <<buffer, accumulated_data, result, call>>
    /\ getDeadline' = 0
    /\ UNCHANGED <<now, end_time, pattern, written>>
    /\ UNCHANGED <<driverVars, boardVars>>

\* Mutant: `if` for `while`, one queued chunk is removed.
FlushBuffer_dropsOneChunk ==
    /\ epc = "idle"
    /\ accumulated_data' = <<>>
    /\ buffer' = IF buffer = <<>> THEN buffer ELSE Tail(buffer)
    /\ written' = <<>>
    /\ call' = [call EXCEPT !.fresh = TRUE, !.seen = 0]
    /\ UNCHANGED <<now, epc, end_time, pattern, getDeadline, result>>
    /\ UNCHANGED <<driverVars, boardVars>>

\* flush_buffer: self.accumulated_data = b""; the queue is drained.
Flush ==
    /\ accumulated_data' = <<>>
    /\ buffer' = <<>>
    /\ written' = <<>>
    /\ call' = [call EXCEPT !.fresh = TRUE, !.seen = 0]

\* MockSerialPort.flush_buffer(): accumulated_data and the queue are emptied.
FlushBuffer ==
    /\ epc = "idle"
    /\ Flush
    /\ UNCHANGED <<now, epc, end_time, pattern, getDeadline, result>>
    /\ UNCHANGED <<driverVars, boardVars>>

\* Time passes while the consumer is blocked in buffer.get on an empty queue;
\* computation between two blocking points takes no time.
Tick ==
    /\ epc = "get"
    /\ buffer = <<>>
    /\ now < getDeadline
    /\ now' = now + 1
    /\ UNCHANGED <<buffer, accumulated_data, epc, end_time, pattern,
                   getDeadline, result, written, call>>
    /\ UNCHANGED <<driverVars, boardVars>>

DriverIdle ==
    /\ pc = "load_board"
    /\ hasBoard = TRUE
    /\ hasTest = TRUE
    /\ scenario = "OneshotTest"
    /\ apps = <<>>
    /\ appIdx = 1
    /\ trace = <<>>
    /\ lines = <<>>
    /\ raisedIn = "none"
    /\ errorLogged = FALSE
    /\ successLogged = FALSE
    /\ exitCode = NoExit
    /\ pendingExit = NoExit
    /\ closeCount = 0

InitT == DriverIdle /\ TransportIdle /\ BoardIdle

NextT ==
    \/ Write
    \/ ExpectCall
    \/ ExpectLoop
    \/ ExpectGet
    \/ FlushBuffer
    \/ Tick

SpecT == InitT /\ [][NextT]_vars

----------------------------------------------------------------------------
\* boards/mock_board.py driven by core/main.py: a wait-for-message scenario on
\* the mock board, with the output threads of simulate_output and the clock.
\* Here the clock runs from the start of the run; it advances while the main
\* thread sleeps or is blocked in buffer.get on an empty queue.

\* One second, in ticks: buffer.get(timeout=0.1) is one polling interval.
Second == 10 * PollInterval
\* time.sleep(1) of the output thread and of simulate_output
SleepTime == Second
\* board.serial.expect(self.message, timeout=10)
MessageTimeout == 10 * Second
\* "Hello World!\r\n".encode(), "H" for the text of the message
HelloChunk == <<"H", "\r", "\n">>
\* the scenario's message, "Hello World!"
HelloPattern == Pat(FALSE, <<"H">>)

\* MockBoard.erase_board: logs.
MockErase ==
    /\ pc = "erase"
    /\ trace' = Append(trace, Ev("erase_board", "", "ret"))
    /\ pc' = "flush"
    /\ UNCHANGED <<hasBoard, hasTest, scenario, apps, appIdx, lines, raisedIn,
                   errorLogged, successLogged, exitCode, pendingExit, closeCount>>
    /\ UNCHANGED <<transportVars, boardVars>>

\* OneshotTest.test: board.serial.flush_buffer() on the MockSerialPort.
MockFlush ==
    /\ pc = "flush"
    /\ epc = "idle"
    /\ Flush
    /\ trace' = Append(trace, Ev("flush_buffer", "", "ret"))
    /\ pc' = "kernel"
    /\ UNCHANGED <<now, epc, end_time, pattern, getDeadline, result>>
    /\ UNCHANGED <<hasBoard, hasTest, scenario, apps, appIdx, lines, raisedIn,
                   errorLogged, successLogged, exitCode, pendingExit, closeCount>>
    /\ UNCHANGED boardVars

\* MockBoard.flash_kernel: logs.
MockFlashKernel ==
    /\ pc = "kernel"
    /\ trace' = Append(trace, Ev("flash_kernel", "", "ret"))
    /\ pc' = "apps"
    /\ UNCHANGED <<hasBoard, hasTest, scenario, apps, appIdx, lines, raisedIn,
                   errorLogged, successLogged, exitCode, pendingExit, closeCount>>
    /\ UNCHANGED <<transportVars, boardVars>>

\* Mutant: the output thread sleeps past the scenario's timeout.
MockFlashApp_slowThread ==
    /\ pc = "apps"
    /\ appIdx <= Len(apps)
    /\ IF apps[appIdx] = "c_hello"
         THEN /\ threads' = Append(threads, now + SleepTime + MessageTimeout)
              /\ wake' = now + SleepTime
              /\ pc' = "app_sleep"
              /\ UNCHANGED <<trace, appIdx>>
         ELSE /\ trace' = Append(trace, Ev("flash_app", apps[appIdx], "ret"))
              /\ appIdx' = appIdx + 1
              /\ UNCHANGED <<pc, threads, wake>>
    /\ UNCHANGED <<hasBoard, hasTest, scenario, apps, lines, raisedIn,
                   errorLogged, successLogged, exitCode, pendingExit, closeCount>>
    /\ UNCHANGED <<transportVars, hostVars, emitterVars, scriptVars>>

\* MockBoard.flash_app(app): for "c_hello", simulate_output starts the output
\* thread (which begins with time.sleep(1)) and then sleeps one second itself;
\* for any other app it logs a warning and returns.
MockFlashApp ==
    /\ pc = "apps"
    /\ appIdx <= Len(apps)
    /\ IF apps[appIdx] = "c_hello"
         THEN /\ threads' = Append(threads, now + SleepTime)
              /\ wake' = now + SleepTime
              /\ pc' = "app_sleep"
              /\ UNCHANGED <<trace, appIdx>>
         ELSE /\ trace' = Append(trace, Ev("flash_app", apps[appIdx], "ret"))
              /\ appIdx' = appIdx + 1
              /\ UNCHANGED <<pc, threads, wake>>
    /\ UNCHANGED <<hasBoard, hasTest, scenario, apps, lines, raisedIn,
                   errorLogged, successLogged, exitCode, pendingExit, closeCount>>
    /\ UNCHANGED <<transportVars, hostVars, emitterVars, scriptVars>>

\* simulate_output's time.sleep(1) is over: flash_app returns.
MockFlashAppReturn ==
    /\ pc = "app_sleep"
    /\ now >= wake
    /\ trace' = Append(trace, Ev("flash_app", apps[appIdx], "ret"))
    /\ appIdx' = appIdx + 1
    /\ pc' = "apps"
    /\ UNCHANGED <<hasBoard, hasTest, scenario, apps, lines, raisedIn,
                   errorLogged, successLogged, exitCode, pendingExit, closeCount>>
    /\ UNCHANGED <<transportVars, boardVars>>

\* output_thread: after its time.sleep(1), self.serial.write(message.encode()).
OutputThread ==
    \E i \in 1..Len(threads) :
        /\ now >= threads[i]
        /\ buffer' = Append(buffer, HelloChunk)
        /\ written' = written \o HelloChunk
        /\ threads' = SubSeq(threads, 1, i - 1) \o SubSeq(threads, i + 1, Len(threads))
        /\ wake' = wake
        /\ UNCHANGED <<accumulated_data, now, epc, end_time, pattern,
                       getDeadline, result, call>>
        /\ UNCHANGED <<driverVars, hostVars, emitterVars, scriptVars>>

\* Mutant: the observation step empties the transport before it waits.
MockExpectCall_flushesFirst ==
    /\ pc = "wait_message"
    /\ epc = "idle"
    /\ pattern' = HelloPattern
    /\ end_time' = now + MessageTimeout
    /\ epc' = "loop"
    /\ call' = Called(HelloPattern)
    /\ pc' = "in_expect"
    /\ buffer' = <<>>
    /\ accumulated_data' = <<>>
    /\ written' = <<>>
    /\ UNCHANGED <<now, getDeadline, result>>
    /\ UNCHANGED <<hasBoard, hasTest, scenario, apps, appIdx, trace, lines, raisedIn,
                   errorLogged, successLogged, exitCode, pendingExit, closeCount>>
    /\ UNCHANGED boardVars

\* WaitForConsoleMessageTest.oneshot_test: board.serial.expect(self.message,
\* timeout=10) is entered; end_time = time.time() + timeout.
MockExpectCall ==
    /\ pc = "wait_message"
    /\ epc = "idle"
    /\ pattern' = HelloPattern
    /\ end_time' = now + MessageTimeout
    /\ epc' = "loop"
    /\ call' = Called(HelloPattern)
    /\ pc' = "in_expect"
    /\ UNCHANGED <<buffer, accumulated_data, now, getDeadline, result, written>>
    /\ UNCHANGED <<hasBoard, hasTest, scenario, apps, appIdx, trace, lines, raisedIn,
                   errorLogged, successLogged, exitCode, pendingExit, closeCount>>
    /\ UNCHANGED boardVars

\* expect has returned: `if output:` goes on, else the scenario raises.
MockExpectReturn ==
    /\ pc = "in_expect"
    /\ epc = "idle"
    /\ LET output == result # None /\ result # <<>> IN
        /\ trace' = Append(trace, Ev("expect", "", IF result # None THEN "match" ELSE "none"))
        /\ IF output
             THEN pc' = "test_return" /\ raisedIn' = raisedIn
             ELSE Raise("oneshot_test")
    /\ UNCHANGED <<hasBoard, hasTest, scenario, apps, appIdx, lines,
                   errorLogged, successLogged, exitCode, pendingExit, closeCount>>
    /\ UNCHANGED <<transportVars, boardVars>>

\* Time passes while the main thread sleeps in simulate_output or is blocked in
\* buffer.get on an empty queue. A sleeping thread is resumed no later than
\* MaxJitter after its time.
TickE ==
    /\ \/ pc = "app_sleep" /\ now < wake + MaxJitter
       \/ pc = "in_expect" /\ epc = "get" /\ buffer = <<>> /\ now < getDeadline
    /\ \A i \in 1..Len(threads) : now < threads[i] + MaxJitter
    /\ now' = now + 1
    /\ UNCHANGED <<buffer, accumulated_data, epc, end_time, pattern,
                   getDeadline, result, written, call>>
    /\ UNCHANGED <<driverVars, boardVars>>

InitE ==
    /\ pc = "load_board"
    /\ hasBoard = TRUE
    /\ hasTest = TRUE
    /\ scenario = "WaitForConsoleMessageTest"
    /\ apps \in AppSeqs
    /\ appIdx = 1
    /\ trace = <<>>
    /\ lines = <<>>
    /\ raisedIn = "none"
    /\ errorLogged = FALSE
    /\ successLogged = FALSE
    /\ exitCode = NoExit
    /\ pendingExit = NoExit
    /\ closeCount = 0
    /\ TransportIdle
    /\ BoardIdle

NextE ==
    \/ LoadBoard
    \/ LoadTest
    \/ MockErase
    \/ MockFlush
    \/ MockFlashKernel
    \/ MockFlashApp
    \/ MockFlashAppReturn
    \/ OutputThread
    \/ CallOneshot
    \/ MockExpectCall
    \/ ExpectLoop
    \/ ExpectGet
    \/ MockExpectReturn
    \/ TestReturn
    \/ Except
    \/ Finally
    \/ TickE

SpecE == InitE /\ [][NextE]_vars

----------------------------------------------------------------------------
\* The analyses of captured lines, applied to every capture of up to
\* MaxCapture lines (SpecA).  A captured line is stripped when it is stored.

\* Lines of the multi-alarm application "<alarm> <now> <expiration>" and the
\* lines around them: a field that is no number, a line of two fields, a line
\* of four fields with a doubled blank, a third alarm, a signed alarm id.
AlarmLines ==
    {<<"1", " ", "0", " ", "2">>, <<"1", " ", "1", " ", "2">>,
     <<"2", " ", "0", " ", "2">>,
     <<"1", " ", "x", " ", "2">>,
     <<"1", " ", "1">>,
     <<"2", " ", " ", "0", " ", "2", " ", "2">>,
     <<"3", " ", "0", " ", "2">>,
     <<"+1", " ", "0", " ", "2">>}

FaultLines ==
    {<<>>, <<"H">>, <<"Kernel panic">>, <<"H", " ", "Fault">>, <<"fault">>,
     <<"Faulty">>}

AdcLines ==
    {<<>>, <<"H">>, <<"ADC driver exists">>, <<"ADC Reading:", " ", "1">>,
     <<"No ADC driver!">>}

HelloLines ==
    {<<>>, <<"H">>, <<"Hello World!">>, <<"H", " ", "Hello World!">>,
     <<"Hello World">>}

LinesOf(sc) ==
    CASE sc \in {"MultiAlarmSimpleTest", "MultiAlarmTest",
                 "analyze_multi_alarm_output"} -> AlarmLines
      [] sc = "WhileOneTest" -> FaultLines
      [] sc = "AdcTest" -> AdcLines
      [] sc = "analyze_hello_world_output" -> HelloLines

Captures(sc) == UNION {[1..n -> LinesOf(sc)] : n \in 0..MaxCapture}

\* listen_serial_port: analysis_func(output_lines); True ends the listening.
AnalysisFunc ==
    /\ pc = "listen"
    /\ LET res == IF scenario = "analyze_hello_world_output"
                    THEN AnalyzeHelloWorldOutput(lines)
                    ELSE AnalyzeMultiAlarmOutput(lines) IN
        trace' = Append(trace, Ev("analysis_func", "", IF res THEN "True" ELSE "False"))
    /\ pc' = "listened"
    /\ UNCHANGED <<hasBoard, hasTest, scenario, apps, appIdx, lines, raisedIn,
                   errorLogged, successLogged, exitCode, pendingExit, closeCount>>
    /\ UNCHANGED <<transportVars, boardVars>>

\* The capture is complete: a scenario is about to call self.analyze(lines),
\* hwci.py is about to call analysis_func(output_lines).
InitA ==
    /\ scenario \in AnalyzeScenarios \cup AnalysisFuncs
    /\ lines \in Captures(scenario)
    /\ pc = IF scenario \in AnalysisFuncs THEN "listen" ELSE "analyze"
    /\ hasBoard = TRUE
    /\ hasTest = TRUE
    /\ apps = <<>>
    /\ appIdx = 1
    /\ trace = <<>>
    /\ raisedIn = "none"
    /\ errorLogged = FALSE
    /\ successLogged = FALSE
    /\ exitCode = NoExit
    /\ pendingExit = NoExit
    /\ closeCount = 0
    /\ TransportIdle
    /\ BoardIdle

NextA ==
    \/ Analyze
    \/ AnalysisFunc
    \/ TestReturn
    \/ Finally

SpecA == InitA /\ [][NextA]_vars

----------------------------------------------------------------------------
\* boards/tockloader_board.py, boards/nrf52dk.py: a run on a hardware board
\* whose kernel and applications are built from source checkouts (SpecB).

\* self.kernel_board_path
KernelBoardPath == <<"dir", "tock/boards/nordic/nrf52840dk">>

Repo(name) == <<"repo", name>>
\* os.path.join("libtock-c", "examples", app)
AppDir(app) == <<"app_dir", app>>
\* build/<app>.tab inside the application directory
TabFile(app) == <<"tab_file", app>>

Paths ==
    {Repo("tock"), Repo("libtock-c")}
    \cup {AppDir(a) : a \in AppNames} \cup {TabFile(a) : a \in AppNames}

\* What the working directory can hold when the run starts: an application
\* directory lies inside the libtock-c checkout, a tab file inside its
\* application directory (left there by an earlier build).
InitialFs ==
    {f \in SUBSET Paths :
        \A a \in AppNames :
            /\ AppDir(a) \in f => Repo("libtock-c") \in f
            /\ TabFile(a) \in f => AppDir(a) \in f}

Cmd(name, arg) == <<name, arg>>

\* Mutant: the checkout is cloned on every call.
NeedClone_always(name) == TRUE

\* `if not os.path.exists("tock")` / `if not os.path.exists("libtock-c")`
NeedClone(name) == cwd # Root \/ Repo(name) \notin fs

\* Mutant: the directory is restored only when the block ends normally.
ChangeDirectory_noFinally(previous_dir, new_dir, entered, raised) ==
    IF entered /\ raised THEN new_dir ELSE previous_dir

\* change_directory(new_dir), a context manager: previous_dir = os.getcwd();
\* os.chdir(new_dir); try: yield; finally: os.chdir(previous_dir).  The
\* directory the process is in after a `with` block that was or was not
\* entered (os.chdir(new_dir) raises when it cannot enter) and whose body
\* did or did not raise.
ChangeDirectory(previous_dir, new_dir, entered, raised) ==
    LET inside == IF entered THEN new_dir ELSE previous_dir
    IN  IF entered THEN previous_dir ELSE inside

\* Nrf52dk.flash_kernel: git clone (check=True) when the checkout is absent,
\* then `make flash-openocd` (check=True) in the board directory; a failing
\* command, or a board directory that cannot be entered, raises.
NrfFlashKernel ==
    /\ pc = "kernel"
    /\ \E cloneOk, makeOk \in BOOLEAN :
        LET need == NeedClone("tock")
            reached == ~need \/ cloneOk
            ok == reached /\ makeOk
        IN  /\ cmds' = cmds
                    \o (IF need THEN <<Cmd("clone", "tock")>> ELSE <<>>)
                    \o (IF reached THEN <<Cmd("make", "flash-openocd")>> ELSE <<>>)
            /\ fs' = IF need /\ cloneOk THEN fs \cup {Repo("tock")} ELSE fs
            /\ cwd' = ChangeDirectory(cwd, KernelBoardPath, reached, ~makeOk)
            /\ trace' = Append(trace, Ev("flash_kernel", "", IF ok THEN "ret" ELSE "raise"))
            /\ IF ok THEN pc' = "apps" /\ raisedIn' = raisedIn
                     ELSE Raise("flash_kernel")
    /\ UNCHANGED <<hasBoard, hasTest, scenario, apps, appIdx, lines,
                   errorLogged, successLogged, exitCode, pendingExit, closeCount>>
    /\ UNCHANGED <<transportVars, threads, wake, ports, uart_port,
                   emitterVars, scriptVars>>

\* Mutant: the tab file is not looked for before the install.
FlashAppStage_skipsTabCheck(cloneFails, hasDir, makeOk, hasTab, installOk) ==
    IF cloneFails THEN "clone"
    ELSE IF ~hasDir THEN "app_dir"
    ELSE IF ~makeOk THEN "make"
    ELSE IF ~installOk THEN "install"
    ELSE "done"

\* TockloaderBoard.flash_app: the statement at which the call ends: the
\* failed clone, the application directory that is missing, the failed make,
\* the tab file that is missing, the failed install, or its normal end.
FlashAppStage(cloneFails, hasDir, makeOk, hasTab, installOk) ==
    IF cloneFails THEN "clone"
    ELSE IF ~hasDir THEN "app_dir"
    ELSE IF ~makeOk THEN "make"
    ELSE IF ~hasTab THEN "tab_file"
    ELSE IF ~installOk THEN "install"
    ELSE "done"

\* One iteration of `for app in self.apps: board.flash_app(app)` on a
\* TockloaderBoard: clone libtock-c when absent (the checkout brings the
\* application directories `content`), check the application directory, make,
\* check build/<app>.tab (make may or may not have produced it), tockloader
\* install.
TockFlashApp ==
    /\ pc = "apps"
    /\ appIdx <= Len(apps)
    /\ \E cloneOk, makeOk, tabBuilt, installOk \in BOOLEAN :
       \E content \in SUBSET AppNames :
        LET app == apps[appIdx]
            need == NeedClone("libtock-c")
            fs1 == IF need /\ cloneOk
                     THEN fs \cup {Repo("libtock-c")} \cup {AppDir(a) : a \in content}
                     ELSE fs
            fs2 == IF tabBuilt THEN fs1 \cup {TabFile(app)} ELSE fs1
            stage == FlashAppStage(need /\ ~cloneOk, AppDir(app) \in fs1, makeOk,
                                   TabFile(app) \in fs2, installOk)
        IN  /\ cmds' = cmds
                    \o (IF need THEN <<Cmd("clone", "libtock-c")>> ELSE <<>>)
                    \o (IF stage \in {"make", "tab_file", "install", "done"}
                          THEN <<Cmd("make", app)>> ELSE <<>>)
                    \o (IF stage \in {"install", "done"}
                          THEN <<Cmd("install", app)>> ELSE <<>>)
            /\ fs' = IF stage \in {"tab_file", "install", "done"} THEN fs2 ELSE fs1
            /\ cwd' = ChangeDirectory(cwd, AppDir(app),
                                      stage \in {"make", "tab_file", "install", "done"},
                                      stage # "done")
            /\ trace' = Append(trace, Ev("flash_app", app,
                                         IF stage = "done" THEN "ret" ELSE "raise"))
            /\ IF stage = "done"
                 THEN pc' = "apps" /\ appIdx' = appIdx + 1 /\ raisedIn' = raisedIn
                 ELSE Raise("flash_app") /\ appIdx' = appIdx
    /\ UNCHANGED <<hasBoard, hasTest, scenario, apps, lines,
                   errorLogged, successLogged, exitCode, pendingExit, closeCount>>
    /\ UNCHANGED <<transportVars, threads, wake, ports, uart_port,
                   emitterVars, scriptVars>>

\* The board and the test are loaded, the base scenario is run with any
\* applications, and the working directory is in any state it can be in.
InitB ==
    /\ pc = "load_board"
    /\ hasBoard = TRUE
    /\ hasTest = TRUE
    /\ scenario = "OneshotTest"
    /\ apps \in AppSeqs
    /\ appIdx = 1
    /\ trace = <<>>
    /\ lines = <<>>
    /\ raisedIn = "none"
    /\ errorLogged = FALSE
    /\ successLogged = FALSE
    /\ exitCode = NoExit
    /\ pendingExit = NoExit
    /\ closeCount = 0
    /\ TransportIdle
    /\ MockIdle
    /\ fs \in InitialFs
    /\ cmds = <<>>
    /\ ports = <<>>
    /\ uart_port = ""
    /\ cwd = Root
    /\ EmitterIdle
    /\ ScriptIdle

NextB ==
    \/ LoadBoard
    \/ LoadTest
    \/ EraseBoard
    \/ FlushSerial
    \/ NrfFlashKernel
    \/ TockFlashApp
    \/ CallOneshot
    \/ TestReturn
    \/ Except
    \/ Finally

SpecB == InitB /\ [][NextB]_vars

----------------------------------------------------------------------------
\* boards/nrf52dk.py: the construction of the board object, for every list of
\* up to MaxPorts enumerated serial ports (SpecP).

Devices == {"/dev/ttyACM0", "/dev/ttyACM1"}
\* port.description: of a debug probe, of another adapter, and a spelling the
\* comparison by character does not accept.
Descriptions == {"J-Link - CDC", "USB Serial", "j-link"}
Port(device, description) == [device |-> device, description |-> description]
PortLists ==
    UNION {[1..n -> {Port(d, t) : d \in Devices, t \in Descriptions}] : n \in 0..MaxPorts}

\* for port in ports: if "J-Link" in port.description: return port.device
RECURSIVE FirstJLink(_)
FirstJLink(ps) ==
    IF ps = <<>> THEN ""
    ELSE IF Within("J-Link", Head(ps).description) THEN Head(ps).device
    ELSE FirstJLink(Tail(ps))

\* Mutant: the first enumerated port is taken whatever its description.
GetUartPortResult_firstPort(ps) ==
    IF ps # <<>> THEN [res |-> "ret", device |-> ps[1].device]
    ELSE [res |-> "raise", device |-> ""]

\* Nrf52dk.get_uart_port: the device of the first J-Link port; else
\* ports[0].device `if ports`; else raise Exception("No serial ports found").
GetUartPortResult(ps) ==
    IF FirstJLink(ps) # "" THEN [res |-> "ret", device |-> FirstJLink(ps)]
    ELSE IF ps # <<>> THEN [res |-> "ret", device |-> ps[1].device]
    ELSE [res |-> "raise", device |-> ""]

\* Nrf52dk.__init__, run by the board module's `board = Nrf52dk()`:
\* self.uart_port = self.get_uart_port(); its exception leaves exec_module and
\* main, and the interpreter exits with status 1.
GetUartPort ==
    /\ pc = "load_board"
    /\ LET r == GetUartPortResult(ports) IN
        /\ trace' = Append(trace, Ev("get_uart_port", "", r.res))
        /\ uart_port' = r.device
        /\ IF r.res = "ret"
             THEN pc' = "get_serial_port" /\ exitCode' = exitCode
             ELSE pc' = "exited" /\ exitCode' = 1
    /\ UNCHANGED <<hasBoard, hasTest, scenario, apps, appIdx, lines, raisedIn,
                   errorLogged, successLogged, pendingExit, closeCount>>
    /\ UNCHANGED <<transportVars, threads, wake, fs, cmds, ports, cwd,
                   emitterVars, scriptVars>>

\* Nrf52dk.__init__: self.serial = self.get_serial_port(); SerialPort opens
\* the device, and an exception of serial.Serial ends the process as well.
GetSerialPort ==
    /\ pc = "get_serial_port"
    /\ \E opened \in BOOLEAN :
        /\ trace' = Append(trace, Ev("get_serial_port", uart_port,
                                     IF opened THEN "ret" ELSE "raise"))
        /\ IF opened
             THEN pc' = "load_test" /\ exitCode' = exitCode
             ELSE pc' = "exited" /\ exitCode' = 1
    /\ UNCHANGED <<hasBoard, hasTest, scenario, apps, appIdx, lines, raisedIn,
                   errorLogged, successLogged, pendingExit, closeCount>>
    /\ UNCHANGED <<transportVars, boardVars>>

InitP ==
    /\ DriverIdle
    /\ TransportIdle
    /\ MockIdle
    /\ fs = {}
    /\ cmds = <<>>
    /\ ports \in PortLists
    /\ uart_port = ""
    /\ cwd = Root
    /\ EmitterIdle
    /\ ScriptIdle

NextP ==
    \/ GetUartPort
    \/ GetSerialPort

SpecP == InitP /\ [][NextP]_vars

----------------------------------------------------------------------------
\* boards/mock_board.py: the periodic-alarm emitter of the mock board, read by
\* the line-collecting loop of AnalyzeConsoleTest through the mock transport.
\* The clock runs from the start of the emitter thread, in ticks of half a
\* polling interval; the thread starts on a whole second.

\* serial.expect(".*\r\n", timeout=5) of the line-collecting loop
LineTimeout == 5 * Second
\* `if current_time > 10`: the emitter's own limit, in seconds
EmitterLimit == 10

\* f"{alarm} {current_time} {current_time + period}\r\n".encode()
AlarmChunk(alarm, t, period) ==
    <<ToString(alarm), " ", ToString(t), " ", ToString(t + period), "\r", "\n">>

\* What one round of the emitter writes at current_time t: alarm 1 on every
\* even second, then alarm 2 on every fourth.
EmitterChunks(t) ==
    (IF t % 2 = 0 THEN <<AlarmChunk(1, t, 2)>> ELSE <<>>)
    \o (IF t % 4 = 0 THEN <<AlarmChunk(2, t, 4)>> ELSE <<>>)

\* The bytes of those lines, in the order written.
EmitterBytes(t) ==
    (IF t % 2 = 0 THEN AlarmChunk(1, t, 2) ELSE <<>>)
    \o (IF t % 4 = 0 THEN AlarmChunk(2, t, 4) ELSE <<>>)

\* output_thread of simulate_multi_alarm_output begins: self.running = True;
\* start_time = int(time.time()).
EmitterRun ==
    /\ emitter.pc = "start"
    /\ running' = TRUE
    /\ emitter' = [emitter EXCEPT !.pc = "loop", !.start_time = now \div Second]
    /\ UNCHANGED <<threads, wake, hostVars, scriptVars>>
    /\ UNCHANGED <<driverVars, transportVars>>

\* `while self.running:` one round up to time.sleep(1): current_time is read
\* in whole seconds, the lines due are written to the transport.
EmitterLoop ==
    /\ emitter.pc = "loop"
    /\ IF running
         THEN LET t == (now \div Second) - emitter.start_time
                  chunks == EmitterChunks(t) IN
              /\ buffer' = buffer \o chunks
              /\ written' = written \o EmitterBytes(t)
              /\ emitter' = [emitter EXCEPT !.pc = "sleep", !.current_time = t,
                                            !.wake = now + Second]
         ELSE /\ emitter' = [emitter EXCEPT !.pc = "done"]
              /\ UNCHANGED <<buffer, written>>
    /\ UNCHANGED <<accumulated_data, now, epc, end_time, pattern, getDeadline,
                   result, call>>
    /\ UNCHANGED <<running, threads, wake, hostVars, scriptVars>>
    /\ UNCHANGED driverVars

\* time.sleep(1) is over: `if current_time > 10: self.running = False`, and
\* back to the head of the loop.
EmitterWake ==
    /\ emitter.pc = "sleep"
    /\ now >= emitter.wake
    /\ running' = IF emitter.current_time > EmitterLimit THEN FALSE ELSE running
    /\ emitter' = [emitter EXCEPT !.pc = "loop"]
    /\ UNCHANGED <<threads, wake, hostVars, scriptVars>>
    /\ UNCHANGED <<driverVars, transportVars>>

\* AnalyzeConsoleTest.oneshot_test on the mock transport:
\* output = serial.expect(".*\r\n", timeout=5), entry.
MockLineExpectCall ==
    /\ pc = "expect_line"
    /\ epc = "idle"
    /\ pattern' = LinePattern
    /\ end_time' = now + LineTimeout
    /\ epc' = "loop"
    /\ call' = Called(LinePattern)
    /\ pc' = "in_expect"
    /\ UNCHANGED <<buffer, accumulated_data, now, getDeadline, result, written>>
    /\ UNCHANGED <<hasBoard, hasTest, scenario, apps, appIdx, trace, lines, raisedIn,
                   errorLogged, successLogged, exitCode, pendingExit, closeCount>>
    /\ UNCHANGED boardVars

\* expect has returned: `if output:` appends output.decode().strip() to lines
\* and goes round, else the loop breaks.
MockLineExpectReturn ==
    /\ pc = "in_expect"
    /\ epc = "idle"
    /\ LET output == result # None /\ result # <<>> IN
        /\ trace' = Append(trace, Ev("expect", "", IF result # None THEN "match" ELSE "none"))
        /\ IF output
             THEN lines' = Append(lines, Strip(result)) /\ pc' = "expect_line"
             ELSE lines' = lines /\ pc' = "analyze"
    /\ UNCHANGED <<hasBoard, hasTest, scenario, apps, appIdx, raisedIn,
                   errorLogged, successLogged, exitCode, pendingExit, closeCount>>
    /\ UNCHANGED <<transportVars, boardVars>>

\* Time passes while the main thread is blocked in buffer.get on an empty
\* queue. The emitter runs as soon as it is started and is resumed from its
\* sleep no later than MaxJitter after its time.
TickM ==
    /\ pc = "in_expect" /\ epc = "get" /\ buffer = <<>> /\ now < getDeadline
    /\ emitter.pc \in {"sleep", "done"}
    /\ emitter.pc = "sleep" => now < emitter.wake + MaxJitter
    /\ now' = now + 1
    /\ UNCHANGED <<buffer, accumulated_data, epc, end_time, pattern,
                   getDeadline, result, written, call>>
    /\ UNCHANGED <<driverVars, boardVars>>

\* simulate_multi_alarm_output has started its thread and the scenario is at
\* the head of its line-collecting loop.
InitM ==
    /\ pc = "expect_line"
    /\ hasBoard = TRUE
    /\ hasTest = TRUE
    /\ scenario = "MultiAlarmSimpleTest"
    /\ apps = <<>>
    /\ appIdx = 1
    /\ trace = <<>>
    /\ lines = <<>>
    /\ raisedIn = "none"
    /\ errorLogged = FALSE
    /\ successLogged = FALSE
    /\ exitCode = NoExit
    /\ pendingExit = NoExit
    /\ closeCount = 0
    /\ TransportIdle
    /\ MockIdle
    /\ HostIdle
    /\ ScriptIdle
    /\ running = FALSE
    /\ emitter = [pc |-> "start", start_time |-> 0, current_time |-> 0, wake |-> 0]

NextM ==
    \/ EmitterRun
    \/ EmitterLoop
    \/ EmitterWake
    \/ MockLineExpectCall
    \/ ExpectLoop
    \/ ExpectGet
    \/ MockLineExpectReturn
    \/ Analyze
    \/ TestReturn
    \/ Finally
    \/ TickM

SpecM == InitM /\ [][NextM]_vars

----------------------------------------------------------------------------
\* hwci.py and async_hwci.py: the scripts that capture the serial port while
\* the applications are installed. main flashes the kernel, chooses the port,
\* starts listen_serial_port in a thread (hwci.py) or as a task on the event
\* loop (async_hwci.py), sleeps, installs the applications and waits for the
\* listener. The test is hello_world. Here the clock runs from the start of
\* main in ticks of half a second; flashing and choosing the port take no
\* time, the install takes any time.

\* serial.Serial(..., timeout=1) / child.expect(..., timeout=1): one second
ReadTimeout == 2
\* listen_serial_port(args.port, analysis_func, 1000)
ListenTimeout == 1000 * ReadTimeout
\* time.sleep(2) / await asyncio.sleep(2)
ReadySleep == 2 * ReadTimeout
\* The install is over by this time.
Horizon == ListenTimeout + ReadySleep + ReadTimeout

Variants == {"threaded", "async"}

\* What readline() / child.match.group(0) hands over.
SerialLines == {<<"H", "\r", "\n">>, <<"Hello World!", "\r", "\n">>}

\* The listener takes steps: a thread runs beside main; a task runs only while
\* main awaits (asyncio.sleep, the task itself), never during install_apps,
\* which does not yield to the event loop.
CanRun == variant = "threaded" \/ pc \in {"h_sleep", "h_join"}

ListenerAlive == listener.pc \in {"open", "head", "body"}

\* main: flash_kernel(); an exception goes to `except Exception`.
HFlashKernel ==
    /\ pc = "h_flash"
    /\ \E ok \in BOOLEAN :
        /\ trace' = Append(trace, Ev("flash_kernel", "", IF ok THEN "ret" ELSE "raise"))
        /\ pc' = IF ok THEN "h_ports" ELSE "h_except"
    /\ UNCHANGED <<hasBoard, hasTest, scenario, apps, appIdx, lines, raisedIn,
                   errorLogged, successLogged, exitCode, pendingExit, closeCount>>
    /\ UNCHANGED <<transportVars, boardVars>>

\* main: `if not args.port`: with no port enumerated main logs and returns;
\* with one port ports[1] raises IndexError; else there is a port, the one
\* given or the second one enumerated.
HSelectPort ==
    /\ pc = "h_ports"
    /\ \E o \in {"port", "no_ports", "one_port"} :
        /\ trace' = Append(trace, Ev("get_serial_ports", o,
                                     IF o = "one_port" THEN "raise" ELSE "ret"))
        /\ CASE o = "no_ports" -> pc' = "h_exiting" /\ pendingExit' = 0
             [] o = "one_port" -> pc' = "h_except" /\ pendingExit' = pendingExit
             [] OTHER -> pc' = "h_start" /\ pendingExit' = pendingExit
    /\ UNCHANGED <<hasBoard, hasTest, scenario, apps, appIdx, lines, raisedIn,
                   errorLogged, successLogged, exitCode, closeCount>>
    /\ UNCHANGED <<transportVars, boardVars>>

\* main: listener_thread.start() / asyncio.create_task(...), then the sleep of
\* two seconds begins.
HStartListener ==
    /\ pc = "h_start"
    /\ listener' = [listener EXCEPT !.pc = "open"]
    /\ trace' = Append(trace, Ev("start_listener", "", "ret"))
    /\ wake' = now + ReadySleep
    /\ pc' = "h_sleep"
    /\ UNCHANGED <<hasBoard, hasTest, scenario, apps, appIdx, lines, raisedIn,
                   errorLogged, successLogged, exitCode, pendingExit, closeCount>>
    /\ UNCHANGED <<transportVars, threads, hostVars, emitterVars, variant>>

\* main: the sleep is over, install_apps is called.
HInstallCall ==
    /\ pc = "h_sleep"
    /\ now >= wake
    /\ trace' = Append(trace, Ev("install_apps", "", "call"))
    /\ pc' = "h_install"
    /\ UNCHANGED <<hasBoard, hasTest, scenario, apps, appIdx, lines, raisedIn,
                   errorLogged, successLogged, exitCode, pendingExit, closeCount>>
    /\ UNCHANGED <<transportVars, boardVars>>

\* main: install_apps returns, or one of its commands raises.
HInstallApps ==
    /\ pc = "h_install"
    /\ \E ok \in BOOLEAN :
        /\ trace' = Append(trace, Ev("install_apps", "", IF ok THEN "ret" ELSE "raise"))
        /\ pc' = IF ok THEN "h_join" ELSE "h_except"
    /\ UNCHANGED <<hasBoard, hasTest, scenario, apps, appIdx, lines, raisedIn,
                   errorLogged, successLogged, exitCode, pendingExit, closeCount>>
    /\ UNCHANGED <<transportVars, boardVars>>

\* What main has in hand once the listener is over: Thread.join() returns
\* None; `await listener_task` returns what listen_serial_port returned.
JoinValue(v, ret) == IF v = "threaded" THEN "None" ELSE ret

\* hwci.py: `if listener_thread.join(): ... else: sys.exit(1)`;
\* async_hwci.py: `await listener_task`, whose value is dropped, then the
\* success is logged and main returns.
ExitAfterJoin(v, value) ==
    IF v = "threaded" THEN (IF value = "True" THEN 0 ELSE 1) ELSE 0

\* main: the wait for the listener is over. SystemExit is not an Exception,
\* so `except Exception` does not see it.
HJoin ==
    /\ pc = "h_join"
    /\ listener.pc = "done"
    /\ LET value == JoinValue(variant, listener.ret) IN
        /\ trace' = Append(trace, Ev("join", "", value))
        /\ pendingExit' = ExitAfterJoin(variant, value)
        /\ successLogged' = (variant = "async" \/ value = "True")
    /\ pc' = "h_exiting"
    /\ UNCHANGED <<hasBoard, hasTest, scenario, apps, appIdx, lines, raisedIn,
                   errorLogged, exitCode, closeCount>>
    /\ UNCHANGED <<transportVars, boardVars>>

\* main: except Exception: logging.exception(...); sys.exit(1)
HExcept ==
    /\ pc = "h_except"
    /\ pendingExit' = 1
    /\ errorLogged' = TRUE
    /\ pc' = "h_exiting"
    /\ UNCHANGED <<hasBoard, hasTest, scenario, apps, appIdx, trace, lines, raisedIn,
                   successLogged, exitCode, closeCount>>
    /\ UNCHANGED <<transportVars, boardVars>>

\* The process ends: the interpreter waits for a listener thread that is
\* still running; asyncio.run cancels a task that is still pending.
HExit ==
    /\ pc = "h_exiting"
    /\ variant = "threaded" => ~ListenerAlive
    /\ listener' = IF ListenerAlive THEN [listener EXCEPT !.pc = "cancelled"]
                                     ELSE listener
    /\ exitCode' = pendingExit
    /\ pc' = "exited"
    /\ UNCHANGED <<hasBoard, hasTest, scenario, apps, appIdx, trace, lines, raisedIn,
                   errorLogged, successLogged, pendingExit, closeCount>>
    /\ UNCHANGED <<transportVars, threads, wake, hostVars, emitterVars, variant>>

\* listen_serial_port: serial.Serial(port_device, ...) opens the port, or
\* raises and the function returns False; start_time = time.time().
ListenerOpen ==
    /\ listener.pc = "open"
    /\ CanRun
    /\ \E ok \in BOOLEAN :
        listener' = IF ok THEN [listener EXCEPT !.pc = "head", !.start_time = now]
                          ELSE [listener EXCEPT !.pc = "done", !.wake = 0, !.ret = "False"]
    /\ UNCHANGED <<threads, wake, hostVars, emitterVars, variant>>
    /\ UNCHANGED <<driverVars, transportVars>>

\* Mutant: the loop goes round without looking at the clock.
ListenerHead_noDeadline ==
    /\ listener.pc = "head"
    /\ CanRun
    /\ listener' = [listener EXCEPT !.pc = "body", !.wake = now + ReadTimeout]
    /\ UNCHANGED <<threads, wake, hostVars, emitterVars, variant>>
    /\ UNCHANGED <<driverVars, transportVars>>

\* listen_serial_port: `while time.time() - start_time < timeout:`; after the
\* loop ser.close() and `return True`. The body entered waits for at most the
\* read timeout (readline or expect with timeout=1, or time.sleep(0.1)); wake
\* is that latest time, and is cleared when the function returns.
ListenerHead ==
    /\ listener.pc = "head"
    /\ CanRun
    /\ listener' = IF now - listener.start_time < ListenTimeout
                     THEN [listener EXCEPT !.pc = "body", !.wake = now + ReadTimeout]
                     ELSE [listener EXCEPT !.pc = "done", !.wake = 0, !.ret = "True"]
    /\ UNCHANGED <<threads, wake, hostVars, emitterVars, variant>>
    /\ UNCHANGED <<driverVars, transportVars>>

\* listen_serial_port: one body of the loop. A line read is stripped and
\* appended, and analysis_func(output_lines) returning True breaks out of
\* the loop (the function returns True); with no line the loop goes round;
\* an exception (the port fails) makes the function return False.
ListenerBody ==
    /\ listener.pc = "body"
    /\ CanRun
    /\ \/ /\ Len(lines) < MaxLines
          /\ \E line \in SerialLines :
                LET output_lines == Append(lines, Strip(line)) IN
                /\ lines' = output_lines
                /\ listener' = IF AnalyzeHelloWorldOutput(output_lines)
                                 THEN [listener EXCEPT !.pc = "done", !.wake = 0,
                                                       !.ret = "True",
                                                       !.accepted = TRUE]
                                 ELSE [listener EXCEPT !.pc = "head"]
       \/ /\ lines' = lines
          /\ listener' = [listener EXCEPT !.pc = "head"]
       \/ /\ lines' = lines
          /\ listener' = [listener EXCEPT !.pc = "done", !.wake = 0, !.ret = "False"]
    /\ UNCHANGED <<pc, hasBoard, hasTest, scenario, apps, appIdx, trace, raisedIn,
                   errorLogged, successLogged, exitCode, pendingExit, closeCount>>
    /\ UNCHANGED <<threads, wake, hostVars, emitterVars, variant>>
    /\ UNCHANGED transportVars

\* Time passes while main sleeps, installs, or waits for the listener, and
\* the listener, where it can run, is inside a body that has not used up its
\* read timeout.
TickH ==
    /\ now < Horizon
    /\ \/ pc = "h_sleep" /\ now < wake
       \/ pc = "h_install"
       \/ pc \in {"h_join", "h_exiting"} /\ ListenerAlive
    /\ (CanRun /\ ListenerAlive) => (listener.pc = "body" /\ now < listener.wake)
    /\ now' = now + 1
    /\ UNCHANGED <<buffer, accumulated_data, epc, end_time, pattern,
                   getDeadline, result, written, call>>
    /\ UNCHANGED <<driverVars, boardVars>>

InitH ==
    /\ pc = "h_flash"
    /\ hasBoard = TRUE
    /\ hasTest = TRUE
    /\ scenario = "analyze_hello_world_output"
    /\ apps = <<"c_hello">>
    /\ appIdx = 1
    /\ trace = <<>>
    /\ lines = <<>>
    /\ raisedIn = "none"
    /\ errorLogged = FALSE
    /\ successLogged = FALSE
    /\ exitCode = NoExit
    /\ pendingExit = NoExit
    /\ closeCount = 0
    /\ TransportIdle
    /\ MockIdle
    /\ HostIdle
    /\ EmitterIdle
    /\ variant \in Variants
    /\ listener = [pc |-> "none", start_time |-> 0, wake |-> 0, ret |-> "none",
                   accepted |-> FALSE]

NextH ==
    \/ HFlashKernel
    \/ HSelectPort
    \/ HStartListener
    \/ HInstallCall
    \/ HInstallApps
    \/ HJoin
    \/ HExcept
    \/ HExit
    \/ ListenerOpen
    \/ ListenerHead
    \/ ListenerBody
    \/ TickH

SpecH == InitH /\ [][NextH]_vars

----------------------------------------------------------------------------
\* Reading the call history

Idx(op) == {i \in 1..Len(trace) : trace[i].op = op}
Completed(op) == {i \in Idx(op) : trace[i].res = "ret"}
Exited == pc = "exited"
\* test.test(board) has been called
TestCalled == pc \notin {"load_board", "load_test"} /\ hasBoard /\ hasTest
AnalyzeRaised == \E i \in Idx("analyze") : trace[i].res = "raise"
SetupRaises == {i \in 1..Len(trace) : trace[i].op \in SetupOps /\ trace[i].res = "raise"}

\* The terminal outcomes, read off what the Driver did and saw.
Passed == successLogged
Failed == raisedIn = "oneshot_test"
HarnessError == raisedIn \in SetupOps
Terminal == Passed \/ Failed \/ HarnessError

\* Position in Init -> Erased -> KernelFlashed = AppsInstalled(0) -> ... ->
\* AppsInstalled(n) -> Observing -> terminal, as a number.
TerminalRank == Len(apps) + 4
ObservingRank == Len(apps) + 3
PhaseRank ==
    IF Terminal THEN TerminalRank
    ELSE IF Idx("oneshot_test") # {} THEN ObservingRank
    ELSE IF Completed("flash_kernel") # {} THEN 2 + Cardinality(Completed("flash_app"))
    ELSE IF Completed("erase_board") # {} THEN 1
    ELSE 0

\* The calls OneshotTest.test itself issues, as <<operation, argument>>.
RECURSIVE TestCalls(_)
TestCalls(t) ==
    IF t = <<>> THEN <<>>
    ELSE LET rest == TestCalls(Tail(t)) IN
         IF Head(t).op \in SetupOps \cup {"oneshot_test"}
           THEN <<<<Head(t).op, Head(t).arg>>>> \o rest
           ELSE rest

ExpectedCalls ==
    <<<<"erase_board", "">>, <<"flush_buffer", "">>, <<"flash_kernel", "">>>>
    \o [i \in 1..Len(apps) |-> <<"flash_app", apps[i]>>]
    \o <<<<"oneshot_test", "">>>>

IsPrefix(a, b) == Len(a) <= Len(b) /\ a = SubSeq(b, 1, Len(a))

----------------------------------------------------------------------------
\* C1: in every run of OneshotTest.test, erase_board and then flash_kernel have
\* both completed before any flash_app call is issued.
C1_EraseKernelBeforeApps ==
    \A j \in Idx("flash_app") :
        \E i \in Completed("erase_board"), k \in Completed("flash_kernel") :
            i < k /\ k < j

C1_Witness ==
    /\ Exited
    /\ Cardinality(Idx("flash_app")) = 2

\* C2: when analyze(lines) raises in the analyze-console observation step, the
\* exception reaches the Driver: the run exits with code 1 and is never
\* reported as "Test completed successfully".
C2_AnalyzeFailurePropagates ==
    (Exited /\ AnalyzeRaised) =>
        (exitCode = 1 /\ ~successLogged /\ raisedIn # "none")

\* C3: whatever the outcome of test.test(board) (normal return, analysis
\* exception, setup exception), board.serial.close() is invoked exactly once,
\* and only after test() has finished.
C3_CloseExactlyOnceAfterTest ==
    /\ closeCount = Cardinality(Idx("close"))
    /\ closeCount <= 1
    /\ \A i \in Idx("close") :
          /\ i = Len(trace)
          /\ successLogged \/ raisedIn # "none"
    /\ (Exited /\ TestCalled) => closeCount = 1

C3_Witness ==
    /\ Exited
    /\ AnalyzeRaised
    /\ closeCount = 1

C5_PhaseOrder ==
    /\ [][/\ \/ PhaseRank' = PhaseRank
             \/ PhaseRank' = PhaseRank + 1
             \/ PhaseRank' = TerminalRank /\ HarnessError'
          /\ (Passed => Passed') /\ (Failed => Failed')
          /\ (HarnessError => HarnessError')]_vars
    /\ [](/\ Cardinality({o \in {"P", "F", "H"} :
                  \/ o = "P" /\ Passed
                  \/ o = "F" /\ Failed
                  \/ o = "H" /\ HarnessError}) = IF Terminal THEN 1 ELSE 0
          /\ (Exited /\ TestCalled) => Terminal)

C5_Witness ==
    /\ Exited
    /\ Passed
    /\ Len(apps) = 2
    /\ Cardinality(Completed("flash_app")) = 2

\* C6: if erase_board, the flush, flash_kernel or a flash_app raises, the run
\* aborts at once: the step is not retried, nothing but the Driver's close is
\* issued afterwards, and the run ends as HarnessError with exit code 1.
C6_SetupFailureAborts ==
    \A i \in SetupRaises :
        /\ \A j \in (i + 1)..Len(trace) : trace[j].op = "close"
        /\ pc \in {"except", "finally", "exited"}
        /\ raisedIn = trace[i].op
        /\ ~successLogged
        /\ Exited => (exitCode = 1 /\ HarnessError /\ ~Passed /\ ~Failed)

C6_Witness ==
    /\ Exited
    /\ \E i \in SetupRaises : trace[i].op = "flash_app" /\ i = 5

\* C7: OneshotTest.test issues exactly erase_board, flush_buffer, flash_kernel,
\* flash_app(app) once per configured application in the configured order, then
\* the observation step, strictly in that order.
C7_ExactSequence ==
    /\ IsPrefix(TestCalls(trace), ExpectedCalls)
    /\ \A i \in 1..Len(trace) :
          (trace[i].op \in SetupOps /\ i < Len(TestCalls(trace))) => trace[i].res = "ret"
    /\ (successLogged \/ Failed) => TestCalls(trace) = ExpectedCalls

C7_Witness ==
    /\ successLogged
    /\ Len(apps) = 2
    /\ apps[1] # apps[2]
    /\ TestCalls(trace) = ExpectedCalls

----------------------------------------------------------------------------
\* Reading the transport

InExpect == epc # "idle"
\* the latest expect call has returned
Returned == epc = "idle" /\ call.made

\* C8: expect(pattern, timeout) with timeout > 0 on a transport that hands it
\* no data returns the no-match sentinel, not before the timeout and no later
\* than the timeout plus one polling interval; while it runs it is never past
\* that bound and never stuck.
C8_NoDataTimesOut ==
    /\ InExpect =>
          /\ now <= end_time + PollInterval
          /\ ENABLED (ExpectLoop \/ ExpectGet \/ Tick)
    /\ (Returned /\ call.got = 0) =>
          /\ result = None
          /\ end_time <= now
          /\ now <= end_time + PollInterval

C8_Witness ==
    /\ Returned
    /\ call.got = 0
    /\ buffer = <<>>
    /\ written = <<>>
    /\ result = None
    /\ now > end_time

\* C9: from a freshly constructed or just-flushed mock transport, however a
\* string is split into chunks by successive writes, a following expect(P)
\* whose pattern matches the string returns a match (not None), and the bytes
\* returned contain a match of P.
C9_ChunkingInvariance ==
    (Returned /\ call.first /\ call.matchable) =>
        (result # None /\ Search(pattern, result))

C9_Witness ==
    /\ Returned
    /\ call.first
    /\ call.matchable
    /\ call.got = 2
    /\ pattern = LinePattern
    /\ result = <<"\r", "\n">>

\* C10: if the bytes written since the last flush contain a match for P when
\* expect(P) is called, that call returns a match; stated for the case the
\* claim singles out, where an earlier expect timed out after taking bytes off
\* the queue.
C10_WrittenMatchIsReturned ==
    (Returned /\ call.afterTimeout /\ call.matchable) => result # None

\* C11: a timed-out expect loses nothing of what it took: when the previous
\* expect timed out after taking chunks, and the chunks completing the pattern
\* have been written by the time the next expect(P) is called, that call
\* returns a match, made of the bytes kept from the timed-out call followed by
\* the later ones.
C11_TimeoutKeepsChunks ==
    (Returned /\ ~call.fresh /\ call.resumable) =>
        /\ result # None
        /\ result = accumulated_data
        /\ Search(pattern, result)
        /\ IsPrefix(result, written)

C11_Witness ==
    /\ Returned
    /\ ~call.fresh
    /\ call.resumable
    /\ call.got = 1
    /\ result = <<"\r", "\n">>

\* C12: the mock's expect reports a match only in calls where a transport that
\* consumes what it matches would: the data not consumed by earlier matches
\* satisfies the pattern.
C12_MatchesOnlyUnconsumedData ==
    (Returned /\ result # None) => Search(pattern, After(result, call.base))

\* The chunks of a queue, concatenated in queue order.
RECURSIVE Flatten(_)
Flatten(q) == IF q = <<>> THEN <<>> ELSE Head(q) \o Flatten(Tail(q))

\* C13: under every interleaving of writes with expect calls, what the consumer
\* has accumulated, followed by the chunks still queued in queue order, is
\* exactly what was written since the last flush, in write order: the
\* accumulated bytes are a prefix of it, nothing reordered, duplicated or lost.
C13_FifoDelivery ==
    /\ IsPrefix(accumulated_data, written)
    /\ accumulated_data \o Flatten(buffer) = written
    /\ (Returned /\ ~call.fresh /\ result # None) => IsPrefix(result, written)

C13_Witness ==
    /\ InExpect
    /\ Len(accumulated_data) = 1
    /\ Len(buffer) = 1
    /\ written = <<"H", "\r">>

\* C14: the analyze-console observation loop ends for every board behaviour:
\* whenever the run is in the loop it later leaves it (and so within a bounded
\* time), also on a board that emits a line within every expect timeout forever.
C14_ObservationEnds == (pc = "expect_line") ~> (pc # "expect_line")

\* The expect calls of the run, and those that returned the no-match sentinel.
NoMatches == {i \in Idx("expect") : trace[i].res = "none"}

C20_EveryExitCloses == (Exited /\ hasBoard) => closeCount = 1

\* The mock transport holds no accumulated data and no queued chunk.
Empty == accumulated_data = <<>> /\ buffer = <<>>

\* C18: flush_buffer leaves the mock transport with no accumulated data and no
\* queued chunk; on a transport in that state a further flush_buffer changes
\* nothing; and an expect issued after a flush (or construction) that ends
\* with nothing written since returns the no-match sentinel, having taken
\* nothing.
C18_FlushIsIdempotent ==
    /\ [][FlushBuffer => Empty']_vars
    /\ [](Empty =>
            ~ENABLED (FlushBuffer /\ <<accumulated_data, buffer>>' # <<accumulated_data, buffer>>))
    /\ []((Returned /\ ~call.fresh /\ call.first /\ written = <<>>) =>
            (result = None /\ call.got = 0 /\ Empty))

\* a flush has discarded what an earlier expect had matched and what was queued
C18_Witness ==
    /\ epc = "idle"
    /\ call.made
    /\ call.fresh
    /\ result # None
    /\ Empty

\* C15: the hello-world scenario (apps = ["c_hello"], waiting for the message)
\* on the mock board passes under every interleaving of the output thread with
\* the main thread: the thread's output is written after the flush and is taken
\* by the observation step before its timeout, the run is never stuck, stays
\* within the time of the sleeps, and ends Passed with exit code 0.
C15_HelloWorldPasses ==
    apps = <<"c_hello">> =>
        /\ ~Exited => ENABLED NextE
        /\ now <= SleepTime + MaxJitter
        /\ written # <<>> => (written = HelloChunk /\ Completed("flush_buffer") # {})
        /\ Returned => (result = HelloChunk /\ now < end_time)
        /\ ~Failed /\ ~HarnessError
        /\ Exited => (Passed /\ exitCode = 0 /\ closeCount = 1)

C15_Witness ==
    /\ apps = <<"c_hello">>
    /\ Exited
    /\ Passed
    /\ call.got = 1
    /\ now > SleepTime

----------------------------------------------------------------------------
\* Reading a capture and the verdict of its analysis

\* An analysis has been applied to the capture, with verdict r.
Verdict(r) ==
    \E i \in Idx("analyze") \cup Idx("analysis_func") : trace[i].res = r

\* The line is three decimal fields separated by white space.
ThreeDecimalFields(l) == Fields(l) \in [1..3 -> {"0", "1", "2", "3"}]

\* The lines of the capture in which alarm id fired.
Fired(id) ==
    {i \in 1..Len(lines) : ThreeDecimalFields(lines[i]) /\ Fields(lines[i])[1] = id}

\* Both alarms fired, and 1.5 <= c1 / c2 <= 2.5.
RatioInBand ==
    LET c1 == Cardinality(Fired("1"))
        c2 == Cardinality(Fired("2"))
    IN  c1 >= 1 /\ c2 >= 1 /\ 3 * c2 <= 2 * c1 /\ 2 * c1 <= 5 * c2

\* C21: the multi-alarm ratio analysis accepts a capture iff alarms 1 and 2
\* each fired in a line of three decimal fields and 3*c2 <= 2*c1 <= 5*c2,
\* the lines of any other shape being ignored; the same holds for the
\* boolean MultiAlarmTest.analyze returns.
C21_RatioAcceptance ==
    /\ (scenario = "analyze_multi_alarm_output" /\ pc = "listened")
          => (Verdict("True") <=> RatioInBand)
    /\ (scenario = "MultiAlarmTest" /\ Idx("analyze") # {})
          => (Verdict("True") <=> RatioInBand)

\* A capture of four lines, one of them of another shape, is accepted.
C21_Witness ==
    /\ scenario = "analyze_multi_alarm_output"
    /\ pc = "listened"
    /\ Verdict("True")
    /\ Len(lines) = 4
    /\ \E i \in 1..Len(lines) : ~ThreeDecimalFields(lines[i])

\* Every line of the capture is a well-formed line of alarm 1 or alarm 2.
OnlyAlarmLines ==
    \A i \in 1..Len(lines) : i \in Fired("1") \cup Fired("2")

\* C22: on a capture of alarm lines MultiAlarmSimpleTest.analyze passes when
\* alarm 1 fired exactly twice as often as alarm 2, raises when alarm 2 never
\* fired, and raises when alarm 1 fired more than 2.5 times as often as
\* alarm 2.
C22_SimpleRatioVerdicts ==
    (scenario = "MultiAlarmSimpleTest" /\ Idx("analyze") # {} /\ OnlyAlarmLines)
      => LET c1 == Cardinality(Fired("1"))
             c2 == Cardinality(Fired("2"))
         IN  /\ (c2 >= 1 /\ c1 = 2 * c2) => Verdict("ret")
             /\ (c2 = 0) => Verdict("raise")
             /\ (c2 >= 1 /\ 2 * c1 > 5 * c2) => Verdict("raise")

\* Within each alarm's own lines the `now` fields never decrease.
TimesMonotone ==
    \A id \in {"1", "2"} : \A i, j \in Fired(id) :
        i < j => IntOf(Fields(lines[i])[2]) <= IntOf(Fields(lines[j])[2])

\* C23: the multi-alarm analysis passes only a capture in which, within each
\* alarm's own lines, the timestamps never decrease.
C23_PassImpliesMonotoneTimes ==
    /\ (scenario = "MultiAlarmSimpleTest" /\ Verdict("ret")) => TimesMonotone
    /\ (scenario = "analyze_multi_alarm_output" /\ Verdict("True")) => TimesMonotone

\* C24: the ADC scenario passes iff the capture holds a "No ADC driver!"
\* line or an "ADC Reading:" line; a capture with neither fails.
C24_AdcPassesIffMarkerOrReading ==
    (scenario = "AdcTest" /\ Idx("analyze") # {})
      => (Verdict("ret")
            <=> \E i \in 1..Len(lines) : \E j \in 1..Len(lines[i]) :
                    lines[i][j] \in {"No ADC driver!", "ADC Reading:"})

\* C25: the fault-absence analysis raises iff some captured line contains
\* "Kernel panic" or "Fault", and returns for every other capture, the empty
\* one included.
C25_WhileOneRaisesIffMarker ==
    (scenario = "WhileOneTest" /\ Idx("analyze") # {})
      => /\ Verdict("raise")
              <=> \E i \in 1..Len(lines) : \E j \in 1..Len(lines[i]) :
                      lines[i][j] \in {"Kernel panic", "Fault", "Faulty"}
         /\ lines = <<>> => Verdict("ret")
         /\ Verdict("raise") \/ Verdict("ret")

\* A capture whose only marker is a "Fault" amid other text has been refused.
C25_Witness ==
    /\ scenario = "WhileOneTest"
    /\ Verdict("raise")
    /\ \E i \in 1..Len(lines) : lines[i] = <<"H", " ", "Fault">>
    /\ \A i \in 1..Len(lines) : \A j \in 1..Len(lines[i]) :
            lines[i][j] # "Kernel panic"

\* C26: the hello-world analysis accepts a capture iff some line contains
\* exactly "Hello World!"; empty and unrelated lines change nothing.
C26_HelloAcceptsIffExactMarker ==
    (scenario = "analyze_hello_world_output" /\ pc = "listened")
      => (Verdict("True")
            <=> \E i \in 1..Len(lines) : \E j \in 1..Len(lines[i]) :
                    lines[i][j] = "Hello World!")

\* A capture with an empty line, a near miss and the marker is accepted.
C26_Witness ==
    /\ scenario = "analyze_hello_world_output"
    /\ pc = "listened"
    /\ Verdict("True")
    /\ \E i \in 1..Len(lines) : lines[i] = <<>>
    /\ \E i \in 1..Len(lines) : lines[i] = <<"Hello World">>

\* C27: when test() of the multi-alarm scenario built on AnalyzeConsoleTest
\* returns normally, the condition of its analysis was met.
C27_NormalReturnMeansConditionMet ==
    (scenario = "MultiAlarmTest" /\ successLogged) => RatioInBand

----------------------------------------------------------------------------
\* Reading the commands a hardware board ran

CmdIdx(name, arg) == {j \in 1..Len(cmds) : cmds[j] = Cmd(name, arg)}

\* C28: flash_app runs the install tool only after build/<app>.tab has been
\* found to exist (and after the build); a flash_app call whose application
\* directory or tab file is missing raises, runs no install, and the run ends
\* as a harness error with exit code 1.
C28_InstallOnlyAfterArtifactVerified ==
    /\ \A a \in AppNames : \A j \in CmdIdx("install", a) :
          /\ TabFile(a) \in fs
          /\ AppDir(a) \in fs
          /\ \E i \in CmdIdx("make", a) : i < j
    /\ \A i \in Idx("flash_app") :
          (AppDir(trace[i].arg) \notin fs \/ TabFile(trace[i].arg) \notin fs)
            => /\ trace[i].res = "raise"
               /\ CmdIdx("install", trace[i].arg) = {}
               /\ HarnessError
               /\ ~Passed
               /\ Exited => exitCode = 1

\* The build of an application ran and left no tab file: nothing was
\* installed and the run has ended with exit code 1.
C28_Witness ==
    /\ Exited
    /\ exitCode = 1
    /\ \E i \in Idx("flash_app") :
          /\ trace[i].res = "raise"
          /\ CmdIdx("make", trace[i].arg) # {}
          /\ TabFile(trace[i].arg) \notin fs
          /\ CmdIdx("install", trace[i].arg) = {}

\* C29: flash_kernel clones the tock checkout iff its directory is absent
\* when it runs, flash_app clones libtock-c iff its directory is absent when
\* it runs, nothing but clone, make and install is ever run, and no
\* repository is cloned more than once in a run.
C29_CloneIffAbsent ==
    /\ [][/\ (pc = "kernel" /\ Len(trace') > Len(trace))
               => (Cardinality(CmdIdx("clone", "tock")') > Cardinality(CmdIdx("clone", "tock"))
                     <=> Repo("tock") \notin fs)
          /\ (pc = "apps" /\ appIdx <= Len(apps) /\ Len(trace') > Len(trace))
               => (Cardinality(CmdIdx("clone", "libtock-c")')
                      > Cardinality(CmdIdx("clone", "libtock-c"))
                     <=> Repo("libtock-c") \notin fs)]_vars
    /\ [](/\ \A j \in 1..Len(cmds) : cmds[j][1] \in {"clone", "make", "install"}
          /\ Cardinality(CmdIdx("clone", "tock")) <= 1
          /\ Cardinality(CmdIdx("clone", "libtock-c")) <= 1)

\* Two applications were installed; libtock-c was cloned for the first, found
\* in place for the second, and tock was not cloned at all.
C29_Witness ==
    /\ Cardinality(Completed("flash_app")) = 2
    /\ Cardinality(CmdIdx("clone", "libtock-c")) = 1
    /\ CmdIdx("clone", "tock") = {}
    /\ Completed("flash_kernel") # {}

\* The enumerated ports whose description carries the probe's signature.
JLinkPorts ==
    {i \in 1..Len(ports) : ports[i].description = "J-Link - CDC"}

\* C30: get_uart_port returns the device of the first enumerated port whose
\* description contains "J-Link"; with no such port, the device of the first
\* enumerated port; with no port at all it raises and returns no device.
C30_FirstJLinkElseFirstPort ==
    (Idx("get_uart_port") # {})
      => /\ JLinkPorts # {}
              => /\ Completed("get_uart_port") # {}
                 /\ \E i \in JLinkPorts :
                       /\ \A j \in JLinkPorts : i <= j
                       /\ uart_port = ports[i].device
         /\ (JLinkPorts = {} /\ ports # <<>>)
              => Completed("get_uart_port") # {} /\ uart_port = ports[1].device
         /\ ports = <<>>
              => /\ trace[1].res = "raise"
                 /\ uart_port = ""
                 /\ exitCode = 1

\* The probe is the second enumerated port, on another device than the first.
C30_Witness ==
    /\ Idx("get_uart_port") # {}
    /\ Len(ports) = 2
    /\ JLinkPorts = {2}
    /\ ports[1].device # ports[2].device
    /\ uart_port = ports[2].device

----------------------------------------------------------------------------
\* The capture loop of AnalyzeConsoleTest.oneshot_test

\* The expect calls of the loop that returned a match / the no-match sentinel.
LoopExpects(res) == {i \in Idx("expect") : trace[i].res = res}

\* C34: in the analyze-console observation step every expect call that
\* returns a match appends exactly one entry at the end of the captured
\* lines, the loop makes no expect call after the first no-match result, and
\* analyze is then called, exactly once, with the lines captured so far.
C34_CaptureLoop ==
    /\ [][scenario = "WhileOneTest" =>
            /\ (pc = "expect_line" /\ Len(trace') > Len(trace)
                  /\ trace'[Len(trace')].res = "match")
                 => /\ Len(lines') = Len(lines) + 1
                    /\ IsPrefix(lines, lines')
            /\ (pc = "expect_line" /\ Len(trace') > Len(trace)
                  /\ trace'[Len(trace')].res # "match")
                 => lines' = lines
            /\ pc \in {"analyze", "test_return", "except", "finally"}
                 => lines' = lines]_vars
    /\ [](scenario = "WhileOneTest" =>
            /\ Len(lines) = Cardinality(LoopExpects("match"))
            /\ \A i \in LoopExpects("none") :
                  /\ \A j \in Idx("expect") : j <= i
                  /\ pc = "analyze" \/ i + 1 \in Idx("analyze")
            /\ Cardinality(Idx("analyze")) <= 1
            /\ \A k \in Idx("analyze") : k - 1 \in LoopExpects("none"))

\* Two lines were captured, the third expect returned no match, and analyze
\* has been called with the two lines.
C34_Witness ==
    /\ scenario = "WhileOneTest"
    /\ Len(lines) = 2
    /\ lines[1] # lines[2]
    /\ Cardinality(LoopExpects("match")) = 2
    /\ Idx("analyze") # {}

\* C36: between two flush_buffer calls accumulated_data never shrinks (only a
\* flush, which empties it, makes it anything but an extension of itself); an
\* expect that returns a match returns the whole accumulation, which is what
\* has been taken of the bytes written since the last flush; and a match
\* returned after an earlier match, with no flush in between, extends it.
C36_AccumulationOnlyGrows ==
    [][/\ ~IsPrefix(accumulated_data, accumulated_data')
            => /\ epc = "idle" /\ epc' = "idle"
               /\ accumulated_data' = <<>> /\ buffer' = <<>>
       /\ (epc = "get" /\ epc' = "idle")
            => /\ result' = accumulated_data'
               /\ IsPrefix(accumulated_data', written')
               /\ (~call.first /\ result # None) => IsPrefix(result, result')]_vars

\* A second match, with no flush since the first, has returned the bytes of
\* the first together with the chunk taken since.
C36_Witness ==
    /\ Returned
    /\ ~call.first
    /\ ~call.afterTimeout
    /\ call.got = 1
    /\ result # None
    /\ Len(result) = 2
    /\ result = accumulated_data

----------------------------------------------------------------------------
\* The output threads of the mock board and the Driver's flush and close

\* C37: in a one-shot run on the mock board the serial buffer is flushed at
\* most once, before any flash_app call has started an output thread, so no
\* byte an output thread writes is discarded: the bytes written are never
\* taken back, and each of them is in the queue or in the accumulation.
C37_FlushPrecedesInstalls ==
    /\ [][IsPrefix(written, written')]_vars
    /\ [](/\ Cardinality(Idx("flush_buffer")) <= 1
          /\ \A i \in Idx("flush_buffer") : \A j \in Idx("flash_app") : i < j
          /\ (threads # <<>> \/ written # <<>> \/ pc = "app_sleep")
                => Completed("flush_buffer") # {}
          /\ accumulated_data \o Flatten(buffer) = written)

\* Two output threads have written after the flush, and both messages are
\* still held by the transport at the end of the run.
C37_Witness ==
    /\ Exited
    /\ Completed("flush_buffer") # {}
    /\ written = HelloChunk \o HelloChunk
    /\ accumulated_data \o Flatten(buffer) = written

\* C38: when board.serial.close() is called every output thread started by
\* flash_app has finished its write.
C38_ThreadsDoneBeforeClose ==
    closeCount > 0 => threads = <<>>

\* C39: flash_kernel and flash_app leave the working directory of the process
\* as they found it, whether their commands succeed or raise, so it is the
\* directory of the checkouts at every later call.
C39_WorkingDirectoryRestored ==
    /\ [][cwd' = cwd]_vars
    /\ [](cwd = Root)

\* flash_kernel has returned and a flash_app has raised inside its
\* application directory, after its build: the process is where it started.
C39_Witness ==
    /\ Completed("flash_kernel") # {}
    /\ CmdIdx("make", "flash-openocd") # {}
    /\ \E i \in Idx("flash_app") :
          /\ trace[i].res = "raise"
          /\ CmdIdx("make", trace[i].arg) # {}
    /\ cwd = Root

----------------------------------------------------------------------------
\* The periodic-alarm emitter of the mock board, captured and analysed

\* C35: the emitter of simulate_multi_alarm_output stops on its own, and once
\* the line-collecting loop has captured its output through the mock
\* transport and handed it to MultiAlarmSimpleTest.analyze, the capture holds
\* each emitted line once (six of alarm 1, three of alarm 2, the first count
\* twice the second) and analyze returns without raising.
C35_EmitterCapturePasses ==
    Idx("analyze") # {} =>
        /\ emitter.pc = "done" /\ ~running
        /\ Len(lines) = 9
        /\ SimpleCount(lines, 1) = 6
        /\ SimpleCount(lines, 2) = 3
        /\ SimpleCount(lines, 1) = 2 * SimpleCount(lines, 2)
        /\ \A i \in Idx("analyze") : trace[i].res = "ret"

----------------------------------------------------------------------------
\* The capture scripts: order of the steps, the deadline, the exit code

\* The listener is inside its loop.
Listening == listener.pc \in {"head", "body"}

\* The listener is created before install_apps is called, and main comes to
\* wait for it only after install_apps has returned.
StartInstallJoinOrder ==
    /\ \A i \in Idx("install_apps") : \E j \in Idx("start_listener") : j < i
    /\ (pc = "h_install") => listener.pc # "none"
    /\ (pc = "h_join" \/ Idx("join") # {}) =>
          \E j \in Idx("install_apps") :
              /\ trace[j].res = "ret"
              /\ \A i \in Idx("join") : j < i

\* C31 as stated: in hwci.py the listener thread is started before the
\* install and joined only after it, and the listener is never inside its
\* loop later than timeout seconds after its start_time.
C31_LoopEndsByDeadline ==
    variant = "threaded" =>
        /\ StartInstallJoinOrder
        /\ Listening => now <= listener.start_time + ListenTimeout

\* C31: in hwci.py the listener thread is started before the install and
\* joined only after it; the loop looks at its deadline at the head of every
\* round and a round lasts at most the read timeout, so the listener is out
\* of its loop before one read timeout has passed beyond the deadline, and a
\* join that is reached does not wait beyond that time.
C31_LoopEndsOneReadAfterDeadline ==
    variant = "threaded" =>
        /\ StartInstallJoinOrder
        /\ Listening => now < listener.start_time + ListenTimeout + ReadTimeout
        /\ listener.pc = "body" =>
              listener.wake - ReadTimeout < listener.start_time + ListenTimeout

\* main is waiting in join after a successful install while the listener,
\* which nothing has satisfied, is in a round begun before the deadline and
\* still going on after it.
C31_Witness ==
    /\ variant = "threaded"
    /\ pc = "h_join"
    /\ \E j \in Idx("install_apps") : trace[j].res = "ret"
    /\ listener.pc = "body"
    /\ now > listener.start_time + ListenTimeout
    /\ ~AnalyzeHelloWorldOutput(lines)

\* C32: in async_hwci.py a run whose listener left its loop because the
\* deadline had passed, the analysis function never having accepted the
\* lines, ends with a non-zero exit code and logs no success.
C32_AsyncDeadlineFails ==
    ( /\ variant = "async"
      /\ Exited
      /\ Idx("join") # {}
      /\ listener.ret = "True"
      /\ ~listener.accepted
      /\ now >= listener.start_time + ListenTimeout ) =>
        (exitCode # 0 /\ ~successLogged)

\* C33: in hwci.py a run in which flash_kernel and install_apps return and
\* the analysis function accepts the lines ends with exit code 0, and a run
\* that ends with exit code 1 has had a failure: a step that raised, a
\* listener that returned False, or lines that were never accepted.
C33_ThreadedExitCode ==
    (variant = "threaded" /\ Exited) =>
        /\ ( /\ Completed("flash_kernel") # {}
             /\ Completed("install_apps") # {}
             /\ listener.accepted ) => exitCode = 0
        /\ exitCode = 1 =>
              \/ \E i \in 1..Len(trace) : trace[i].res = "raise"
              \/ listener.ret = "False"
              \/ ~listener.accepted

====
